---- MODULE Spec2Model ----
(***************************************************************************)
(* PawPal+ scheduling core (src/pawpal_system.py): one User with its pets, *)
(* tasks and walks, and the Scheduler operations over them.                *)
(*                                                                         *)
(* Objects are arena entries.  `tasks` is User.tasks: every Task object    *)
(* the program creates is appended to it, so a task's identity is its      *)
(* position there.  `walks` holds every Walk object; `userWalks` is        *)
(* User.walks, a list of references into `walks`; `petTasks[p]` is         *)
(* Pet.tasks, a list of references into `tasks`.  Time is in minutes.      *)
(* `calls` holds the scheduleWalk calls that callers have started and not  *)
(* yet finished, for the runs in which calls overlap in time.  `pass` is    *)
(* the loop of a rescheduleMissedTasks call when it is followed iteration  *)
(* by iteration.                                                           *)
(***************************************************************************)
EXTENDS Integers, Sequences, FiniteSets, TLC

VARIABLES tasks, walks, userWalks, petTasks, chain, last, calls, pass, pets

vars == <<tasks, walks, userWalks, petTasks, chain, last, calls, pass, pets>>

\* ------------------------------------------------------------------ bounds
\* Largest length of User.tasks the model explores.
MaxTasks == 3
\* Largest number of tasks in a list a caller built before the queries, or
\* a rescheduleMissedTasks pass, run on it.
MaxQueryLen == 3
\* User.pets holds at most this many pets in the app session.
MaxPets == 2
\* Largest number of walks the caller's calls of the Walk methods are
\* explored on.
MaxWalks == 2

\* ------------------------------------------------------- program constants
\* timedelta(days=1) and timedelta(weeks=1), in minutes.
DayMinutes == 1440
WeekMinutes == 10080

\* Python's None, for the optional string and object fields.
None == "None"
\* task.walk is None / a function returned None: reference 0.
NoRef == 0
\* getNextOccurrence's None: the empty tuple; a datetime t is <<t>>.
Nothing == <<>>

UserId == "user_001"
\* The pets of main.py in addPet order, each named by its Pet.name.
PetOrder == <<"Buddy", "Whiskers">>
Pets == {PetOrder[i] : i \in 1..Len(PetOrder)}

\* Pets of a user a caller built for the name filter, each referred to by a
\* label in Latin letters.
NamePets == {"Buddy", "Emile", "Weiss", "Nikos"}

\* Pet.name of each pet, as the code points of its characters: Buddy,
\* Whiskers, Emile with a capital E acute (201), Weiss with a sharp s
\* (223), and NIKOS in Greek capitals, ending in a capital sigma (931).
PetName ==
    ("Buddy" :> <<66, 117, 100, 100, 121>>) @@ ("Whiskers" :> <<87, 104, 105, 115, 107, 101, 114, 115>>) @@
    ("Emile" :> <<201, 109, 105, 108, 101>>) @@ ("Weiss" :> <<87, 101, 105, 223>>) @@
    ("Nikos" :> <<925, 921, 922, 927, 931>>)

\* ------------------------------------------------------------------ inputs
\* Times are minutes after 08:00 of the first day; durations are positive
\* minutes, as the data model has them.
\* scheduleWalk(pet, time, duration) calls.
WalkRequests ==
    {<<"Buddy", 0, 30>>, <<"Buddy", 15, 30>>, <<"Buddy", 30, 20>>,
     <<"Whiskers", 0, 30>>}
\* createRecurringTask(pet, description, start_time, priority, recurrence) calls.
RecurringRequests ==
    {<<"Buddy", "Feed", 0, "medium", "daily">>,
     <<"Buddy", "Groom", 15, "low", "weekly">>,
     <<"Whiskers", "Play", 15, "low", "none">>}
\* Tasks a caller builds and appends itself:
\* <<taskId, description, pet, dueDate, priority, walk duration, recurrence>>.
CallerTasks ==
    {<<"task_2", "Daily walk", "Buddy", 0, "medium", <<30>>, "daily">>}
\* Tasks User.tasks holds when a rescheduleMissedTasks call is followed step
\* by step: <<description, pet, dueDate, recurrence, isCompleted, walk
\* duration>>; a daily and a weekly task of the first morning, a one-time
\* task, a completed daily task, a daily task with a walk, a daily task of
\* the third morning, and a one-time walk as scheduleWalk makes them.
MissedTasks ==
    {<<"Feed", "Buddy", 0, "daily", FALSE, <<>>>>,
     <<"Groom", "Buddy", 15, "weekly", FALSE, <<>>>>,
     <<"Play", "Whiskers", 15, None, FALSE, <<>>>>,
     <<"Feed", "Buddy", 0, "daily", TRUE, <<>>>>,
     <<"Daily walk", "Buddy", 0, "daily", FALSE, <<30>>>>,
     <<"Feed", "Whiskers", 2 * DayMinutes, "daily", FALSE, <<>>>>,
     <<"Walk Buddy", "Buddy", 15, None, FALSE, <<30>>>>}

\* Values datetime.now() takes after construction.
NowChoices == {DayMinutes, 2 * DayMinutes}
\* scheduleWalk calls whose duration may be zero or negative: scheduleWalk
\* takes any int.
AnyDurationRequests ==
    WalkRequests \cup {<<"Buddy", 0, 0>>, <<"Buddy", 15, -10>>, <<"Whiskers", 40, -20>>}

\* Tasks the queries are run on:
\* <<pet, description, dueDate, priority, isCompleted>>; 60 is 09:00 and 360
\* is 14:00 of the first day, "urgent" is a priority outside the known three,
\* pet None is a task without a pet.
QueryTasks ==
    {<<"Buddy", "Vet", 360, "high", FALSE>>,
     <<"Buddy", "Feed", 60, "medium", FALSE>>,
     <<"Buddy", "Brush", 60, "low", FALSE>>,
     <<"Buddy", "Pills", 60, "urgent", FALSE>>,
     <<"Whiskers", "Play", 60, "high", FALSE>>,
     <<None, "Buy food", 60, "medium", FALSE>>,
     <<"Buddy", "Walk", 60, "high", TRUE>>,
     <<"Buddy", "Vet", DayMinutes + 60, "high", FALSE>>}
\* What datetime.now() returns while a query runs: 10:00 and 23:59 of the
\* first day, 00:00 of the second.
QueryNowChoices == {120, 959, 960}

\* Names getTasksByPetName is asked for, as their code points: Buddy, buddy,
\* BUDDY, BuDdY, whiskers, Bud and Rex.
QueryNames ==
    {<<66, 117, 100, 100, 121>>,
     <<98, 117, 100, 100, 121>>,
     <<66, 85, 68, 68, 89>>,
     <<66, 117, 68, 100, 89>>,
     <<119, 104, 105, 115, 107, 101, 114, 115>>,
     <<66, 117, 100>>,
     <<82, 101, 120>>}

\* Tasks the name filter is run on: <<pet, description>>.
NameTasks ==
    {<<"Buddy", "Feed">>, <<"Emile", "Brush">>, <<"Weiss", "Vet">>,
     <<"Nikos", "Play">>, <<None, "Buy food">>}

\* Names getTasksByPetName is asked for on those tasks, as their code
\* points: buddy, BUDDY, the capitals and the small letters of Emile (E
\* acute), the capitals WEISS and the small letters of Weiss (sharp s), the Greek small letters
\* of NIKOS as a word is written (final sigma, 962), NIKOS with only its last
\* letter small (sigma, 963), and Rex.
NameQueries ==
    {<<98, 117, 100, 100, 121>>,
     <<66, 85, 68, 68, 89>>,
     <<201, 77, 73, 76, 69>>,
     <<233, 109, 105, 108, 101>>,
     <<87, 69, 73, 83, 83>>,
     <<119, 101, 105, 223>>,
     <<957, 953, 954, 959, 962>>,
     <<925, 921, 922, 927, 963>>,
     <<82, 101, 120>>}

\* ----------------------------------------------------------------- helpers
\* Python truthiness of an Optional[str].
Truthy(s) == s # None /\ s # ""

\* Pet(...) with the dataclass defaults; Pet.tasks is petTasks.
Pet(petId, name, breed, age) ==
    [petId |-> petId, name |-> name, breed |-> breed, age |-> age, owner |-> None]

\* User.addPet on the list ps of User.pets.
addPet(ps, pet) == Append(ps, [pet EXCEPT !.owner = UserId])

\* User.pets after main.py added its two pets.
MainPets ==
    addPet(addPet(<<>>, Pet("pet_001", "Buddy", "Golden Retriever", 3)),
           Pet("pet_002", "Whiskers", "Siamese", 2))

\* The petId the Add Pet page gives the n-th pet.
PetIdOf(n) == "pet_" \o ToString(n)

TaskIdOf(n) == "task_" \o ToString(n)

WalkIdOf(n) == "walk_" \o ToString(n)

\* Walk(...) with the dataclass default status.
Walk(walkId, pet, scheduledTime, duration) ==
    [walkId |-> walkId, pet |-> pet, scheduledTime |-> scheduledTime,
     duration |-> duration, status |-> "scheduled"]

\* Task(...): isCompleted defaults to False.
Task(taskId, description, dueDate, priority, walk, user, pet, recurrence) ==
    [taskId |-> taskId, description |-> description, dueDate |-> dueDate,
     priority |-> priority, isCompleted |-> FALSE, walk |-> walk,
     user |-> user, pet |-> pet, recurrence |-> recurrence]

\* The part of the state the operations change, and a call's return value.
Outcome(ts, ws, uw, pt, ret) ==
    [tasks |-> ts, walks |-> ws, userWalks |-> uw, petTasks |-> pt, ret |-> ret]

\* Walk.scheduleWalk on walk w: the walk's own time, duration and status.
Walk_scheduleWalk(ws, w, time, duration) ==
    [ws EXCEPT ![w].scheduledTime = time, ![w].duration = duration,
               ![w].status = "scheduled"]

\* Walk.completeWalk
completeWalk(ws, w) == [ws EXCEPT ![w].status = "completed"]

\* Walk.cancelWalk
cancelWalk(ws, w) == [ws EXCEPT ![w].status = "cancelled"]

\* Faulty variant: the flag is flipped rather than set.
markCompleteToggles(ts, ws, i) ==
    [tasks |-> [ts EXCEPT ![i].isCompleted = ~@],
     walks |-> IF ts[i].walk # NoRef THEN completeWalk(ws, ts[i].walk) ELSE ws]

\* Task.markComplete on task i: the new tasks and walks.
markComplete(ts, ws, i) ==
    [tasks |-> [ts EXCEPT ![i].isCompleted = TRUE],
     walks |-> IF ts[i].walk # NoRef THEN completeWalk(ws, ts[i].walk) ELSE ws]

\* Faulty variant: a weekly task advances by one day.
getNextOccurrenceWeeklyAsDaily(task) ==
    IF task.recurrence \in {"daily", "weekly"} THEN <<task.dueDate + DayMinutes>>
    ELSE Nothing

\* Faulty variant: any other recurrence string is taken as daily.
getNextOccurrenceDefaultsDaily(task) ==
    IF task.recurrence = "weekly" THEN <<task.dueDate + WeekMinutes>>
    ELSE IF Truthy(task.recurrence) THEN <<task.dueDate + DayMinutes>>
    ELSE Nothing

\* Task.getNextOccurrence
getNextOccurrence(task) ==
    IF task.recurrence = "daily" THEN <<task.dueDate + DayMinutes>>
    ELSE IF task.recurrence = "weekly" THEN <<task.dueDate + WeekMinutes>>
    ELSE Nothing

\* Faulty variant: the walks of completed tasks are returned too.
getScheduledWalksIncludesCompleted(pet) ==
    LET held == SelectSeq(petTasks[pet], LAMBDA i : tasks[i].walk # NoRef)
    IN  [k \in 1..Len(held) |-> tasks[held[k]].walk]

\* Pet.getScheduledWalks
getScheduledWalks(pet) ==
    LET held == SelectSeq(petTasks[pet],
                          LAMBDA i : tasks[i].walk # NoRef /\ ~tasks[i].isCompleted)
    IN  [k \in 1..Len(held) |-> tasks[held[k]].walk]

\* ------------------------------------------------------- conflict detector
\* Faulty variant: a conflict only when window 1 starts inside window 2.
OverlapsStartInside(start1, end1, start2, end2) == start2 <= start1 /\ start1 < end2

\* Faulty variant: inclusive comparisons, so touching windows collide.
OverlapsInclusive(start1, end1, start2, end2) == start1 <= end2 /\ end1 >= start2

\* The overlap test of hasConflict (line 465) and checkAllConflicts (line 518).
Overlaps(start1, end1, start2, end2) == start1 < end2 /\ end1 > start2

\* One conflict line of hasConflict: the values its message carries.
ConflictEntry(pet, task) ==
    [pet |-> pet, description |-> task.description, time |-> task.dueDate,
     duration |-> walks[task.walk].duration]

\* Faulty variant: the loop stops at the first conflict.
RECURSIVE ConflictScanFirstOnly(_, _, _, _, _, _)
ConflictScanFirstOnly(pet, pet_tasks, k, scheduled_time, new_end_time, conflicts) ==
    IF k > Len(pet_tasks) THEN conflicts
    ELSE LET task == tasks[pet_tasks[k]] IN
         IF task.walk # NoRef
            /\ Overlaps(scheduled_time, new_end_time, task.dueDate,
                        task.dueDate + walks[task.walk].duration)
         THEN Append(conflicts, ConflictEntry(pet, task))
         ELSE ConflictScanFirstOnly(pet, pet_tasks, k + 1, scheduled_time,
                                    new_end_time, conflicts)

\* The loop of hasConflict over pet_tasks[k..], appending to conflicts.
RECURSIVE ConflictScan(_, _, _, _, _, _)
ConflictScan(pet, pet_tasks, k, scheduled_time, new_end_time, conflicts) ==
    IF k > Len(pet_tasks) THEN conflicts
    ELSE LET task == tasks[pet_tasks[k]] IN
         IF task.walk # NoRef
            /\ Overlaps(scheduled_time, new_end_time, task.dueDate,
                        task.dueDate + walks[task.walk].duration)
         THEN ConflictScan(pet, pet_tasks, k + 1, scheduled_time, new_end_time,
                           Append(conflicts, ConflictEntry(pet, task)))
         ELSE ConflictScan(pet, pet_tasks, k + 1, scheduled_time, new_end_time,
                           conflicts)

\* Faulty variant: tasks whose walk is cancelled are left out of the scan.
hasConflictSkipsCancelled(pet, scheduled_time, duration) ==
    LET new_end_time == scheduled_time + duration
        pet_tasks == SelectSeq(petTasks[pet],
                         LAMBDA i : /\ ~tasks[i].isCompleted
                                    /\ (tasks[i].walk # NoRef =>
                                           walks[tasks[i].walk].status # "cancelled"))
        conflicts == ConflictScan(pet, pet_tasks, 1, scheduled_time,
                                  new_end_time, <<>>)
    IN  IF conflicts # <<>> THEN <<TRUE, conflicts>>
        ELSE <<FALSE, <<[pet |-> pet, ok |-> scheduled_time]>>>>

\* Faulty variant: a scheduleWalk call that is past its own check and has
\* not returned yet counts as a conflict for an overlapping request of its
\* pet.
hasConflictCountsCallsInFlight(pet, scheduled_time, duration) ==
    LET new_end_time == scheduled_time + duration
        pet_tasks == SelectSeq(petTasks[pet], LAMBDA i : ~tasks[i].isCompleted)
        conflicts == ConflictScan(pet, pet_tasks, 1, scheduled_time,
                                  new_end_time, <<>>)
        in_flight == \E d \in DOMAIN calls.of :
                        /\ calls.of[d].pc \notin {"idle", "done"}
                        /\ calls.of[d].req[1] = pet
                        /\ Overlaps(scheduled_time, new_end_time, calls.of[d].req[2],
                                    calls.of[d].req[2] + calls.of[d].req[3])
    IN  IF conflicts # <<>> \/ in_flight THEN <<TRUE, conflicts>>
        ELSE <<FALSE, <<[pet |-> pet, ok |-> scheduled_time]>>>>

\* Faulty variant: completed tasks stay among the scanned pet_tasks.
hasConflictCountsCompleted(pet, scheduled_time, duration) ==
    LET new_end_time == scheduled_time + duration
        pet_tasks == petTasks[pet]
        conflicts == ConflictScan(pet, pet_tasks, 1, scheduled_time,
                                  new_end_time, <<>>)
    IN  IF conflicts # <<>> THEN <<TRUE, conflicts>>
        ELSE <<FALSE, <<[pet |-> pet, ok |-> scheduled_time]>>>>

\* Scheduler.hasConflict: <<has_conflict, message lines>>.
hasConflict(pet, scheduled_time, duration) ==
    LET new_end_time == scheduled_time + duration
        pet_tasks == SelectSeq(petTasks[pet], LAMBDA i : ~tasks[i].isCompleted)
        conflicts == ConflictScan(pet, pet_tasks, 1, scheduled_time,
                                  new_end_time, <<>>)
    IN  IF conflicts # <<>> THEN <<TRUE, conflicts>>
        ELSE <<FALSE, <<[pet |-> pet, ok |-> scheduled_time]>>>>

\* Faulty variant: the inner loop runs over every other task, not pet_tasks[i+1:].
RECURSIVE PairScanAllOthers(_, _, _, _, _)
PairScanAllOthers(pet, pet_tasks, i, j, all_conflicts) ==
    IF i > Len(pet_tasks) THEN all_conflicts
    ELSE IF j > Len(pet_tasks) THEN PairScanAllOthers(pet, pet_tasks, i + 1, 1, all_conflicts)
    ELSE IF j = i THEN PairScanAllOthers(pet, pet_tasks, i, j + 1, all_conflicts)
    ELSE LET task1 == tasks[pet_tasks[i]]
             task2 == tasks[pet_tasks[j]]
             task1_end == task1.dueDate + walks[task1.walk].duration
             task2_end == task2.dueDate + walks[task2.walk].duration
         IN  IF task1.dueDate < task2_end /\ task1_end > task2.dueDate
             THEN PairScanAllOthers(pet, pet_tasks, i, j + 1,
                                    Append(all_conflicts,
                                           [pet |-> pet, task1 |-> pet_tasks[i],
                                            task2 |-> pet_tasks[j]]))
             ELSE PairScanAllOthers(pet, pet_tasks, i, j + 1, all_conflicts)

\* The inner loops of checkAllConflicts for one pet: pairs (i, j), i < j, of
\* pet_tasks, in the order the code visits them.
RECURSIVE PairScan(_, _, _, _, _)
PairScan(pet, pet_tasks, i, j, all_conflicts) ==
    IF i > Len(pet_tasks) THEN all_conflicts
    ELSE IF j > Len(pet_tasks) THEN PairScan(pet, pet_tasks, i + 1, i + 2, all_conflicts)
    ELSE LET task1 == tasks[pet_tasks[i]]
             task2 == tasks[pet_tasks[j]]
             task1_end == task1.dueDate + walks[task1.walk].duration
             task2_end == task2.dueDate + walks[task2.walk].duration
         IN  IF Overlaps(task1.dueDate, task1_end, task2.dueDate, task2_end)
             THEN PairScan(pet, pet_tasks, i, j + 1,
                           Append(all_conflicts,
                                  [pet |-> pet, task1 |-> pet_tasks[i],
                                   task2 |-> pet_tasks[j]]))
             ELSE PairScan(pet, pet_tasks, i, j + 1, all_conflicts)

\* Pet.tasks of the p-th pet of User.pets.  petTasks goes by name and holds
\* the list of the first pet of a name; a later pet of the same name is
\* another object, which no page or script hands to the scheduler, so its
\* list is empty.
TasksOfPetAt(p) ==
    IF \E q \in 1..(p - 1) : pets[q].name = pets[p].name THEN <<>>
    ELSE petTasks[pets[p].name]

\* The outer loop of checkAllConflicts over self.user.pets[p..].
RECURSIVE PetScan(_, _)
PetScan(p, all_conflicts) ==
    IF p > Len(pets) THEN all_conflicts
    ELSE LET pet == pets[p].name
             pet_tasks == SelectSeq(TasksOfPetAt(p),
                              LAMBDA i : ~tasks[i].isCompleted /\ tasks[i].walk # NoRef)
         IN  PetScan(p + 1, PairScan(pet, pet_tasks, 1, 2, all_conflicts))

\* Scheduler.checkAllConflicts: one report per colliding pair.
checkAllConflicts == PetScan(1, <<>>)

\* -------------------------------------------------------------- operations
\* Faulty variant: the walk is registered in User.walks before the conflict check.
scheduleWalkRegistersFirst(pet, time, duration) ==
    LET has_conflict == hasConflict(pet, time, duration)[1]
        w == Len(walks) + 1
        walk == Walk(WalkIdOf(Len(userWalks) + 1), pet, time, duration)
        task == Task(TaskIdOf(Len(tasks) + 1), "Walk " \o pet, time, "high",
                     w, UserId, pet, None)
    IN  IF has_conflict
        THEN Outcome(tasks, Append(walks, walk), Append(userWalks, w), petTasks, NoRef)
        ELSE Outcome(Append(tasks, task), Append(walks, walk), Append(userWalks, w),
                     [petTasks EXCEPT ![pet] = Append(@, Len(tasks) + 1)], w)

\* Faulty variant: the companion task is not appended to pet.tasks.
scheduleWalkSkipsPetList(pet, time, duration) ==
    LET has_conflict == hasConflict(pet, time, duration)[1]
        w == Len(walks) + 1
        walk == Walk(WalkIdOf(Len(userWalks) + 1), pet, time, duration)
        task == Task(TaskIdOf(Len(tasks) + 1), "Walk " \o pet, time, "high",
                     w, UserId, pet, None)
    IN  IF has_conflict
        THEN Outcome(tasks, walks, userWalks, petTasks, NoRef)
        ELSE Outcome(Append(tasks, task), Append(walks, walk), Append(userWalks, w),
                     petTasks, w)

\* Faulty variant: the walk is not appended to User.walks.
scheduleWalkSkipsUserWalks(pet, time, duration) ==
    LET has_conflict == hasConflict(pet, time, duration)[1]
        w == Len(walks) + 1
        walk == Walk(WalkIdOf(Len(userWalks) + 1), pet, time, duration)
        task == Task(TaskIdOf(Len(tasks) + 1), "Walk " \o pet, time, "high",
                     w, UserId, pet, None)
    IN  IF has_conflict
        THEN Outcome(tasks, walks, userWalks, petTasks, NoRef)
        ELSE Outcome(Append(tasks, task), Append(walks, walk), userWalks,
                     [petTasks EXCEPT ![pet] = Append(@, Len(tasks) + 1)], w)

\* The Walk scheduleWalk builds (lines 133-138); its id comes from the
\* length User.walks has at that moment.
scheduleWalkNewWalk(pet, time, duration) ==
    Walk(WalkIdOf(Len(userWalks) + 1), pet, time, duration)

\* The Task scheduleWalk builds for walk w (lines 139-147); its id comes from
\* the length User.tasks has at that moment.
scheduleWalkNewTask(pet, time, w) ==
    Task(TaskIdOf(Len(tasks) + 1), "Walk " \o pet, time, "high", w, UserId, pet, None)

\* scheduleWalk after its conflict check (lines 133-153), run without
\* interruption: the walk and the task are built and appended.
scheduleWalkCreate(pet, time, duration) ==
    LET w == Len(walks) + 1
        walk == scheduleWalkNewWalk(pet, time, duration)
        task == scheduleWalkNewTask(pet, time, w)
    IN  Outcome(Append(tasks, task), Append(walks, walk), Append(userWalks, w),
                [petTasks EXCEPT ![pet] = Append(@, Len(tasks) + 1)], w)

\* Scheduler.scheduleWalk
scheduleWalk(pet, time, duration) ==
    LET has_conflict == hasConflict(pet, time, duration)[1]
    IN  IF has_conflict
        THEN Outcome(tasks, walks, userWalks, petTasks, NoRef)
        ELSE scheduleWalkCreate(pet, time, duration)

\* Faulty variant: the successor is not appended to the pet's list.
completeTaskSkipsPetList(i) ==
    LET task == tasks[i]
        done == markComplete(tasks, walks, i)
        next_due_date == getNextOccurrence(task)
        n == Len(tasks) + 1
        new_task == Task(TaskIdOf(n), task.description, next_due_date[1],
                         task.priority, NoRef, task.user, task.pet, task.recurrence)
    IN  IF Truthy(task.recurrence) /\ next_due_date # Nothing
        THEN Outcome(Append(done.tasks, new_task), done.walks, userWalks, petTasks, n)
        ELSE Outcome(done.tasks, done.walks, userWalks, petTasks, NoRef)

\* Faulty variant: a task without a next occurrence is cloned at its own date.
completeTaskAlwaysExpands(i) ==
    LET task == tasks[i]
        done == markComplete(tasks, walks, i)
        next_due_date == getNextOccurrence(task)
        n == Len(tasks) + 1
        new_task == Task(TaskIdOf(n), task.description,
                         IF next_due_date # Nothing THEN next_due_date[1]
                         ELSE task.dueDate,
                         task.priority, NoRef, task.user, task.pet, task.recurrence)
    IN  Outcome(Append(done.tasks, new_task), done.walks, userWalks,
                IF task.pet # None
                THEN [petTasks EXCEPT ![task.pet] = Append(@, n)]
                ELSE petTasks,
                n)

\* Faulty variant: the completed task is taken out of its pet's list.
completeTaskDropsFromPetList(i) ==
    LET task == tasks[i]
        done == markComplete(tasks, walks, i)
        next_due_date == getNextOccurrence(task)
        n == Len(tasks) + 1
        new_task == Task(TaskIdOf(n), task.description, next_due_date[1],
                         task.priority, NoRef, task.user, task.pet, task.recurrence)
        kept == [p \in DOMAIN petTasks |-> SelectSeq(petTasks[p], LAMBDA k : k # i)]
    IN  IF Truthy(task.recurrence) /\ next_due_date # Nothing
        THEN Outcome(Append(done.tasks, new_task), done.walks, userWalks,
                     IF task.pet # None
                     THEN [kept EXCEPT ![task.pet] = Append(@, n)]
                     ELSE kept,
                     n)
        ELSE Outcome(done.tasks, done.walks, userWalks, kept, NoRef)

\* Faulty variant: a task that is already completed is left alone.
completeTaskOnlyWhenPending(i) ==
    LET task == tasks[i]
        done == markComplete(tasks, walks, i)
        next_due_date == getNextOccurrence(task)
        n == Len(tasks) + 1
        new_task == Task(TaskIdOf(n), task.description, next_due_date[1],
                         task.priority, NoRef, task.user, task.pet, task.recurrence)
    IN  IF ~task.isCompleted /\ Truthy(task.recurrence) /\ next_due_date # Nothing
        THEN Outcome(Append(done.tasks, new_task), done.walks, userWalks,
                     IF task.pet # None
                     THEN [petTasks EXCEPT ![task.pet] = Append(@, n)]
                     ELSE petTasks,
                     n)
        ELSE Outcome(done.tasks, done.walks, userWalks, petTasks, NoRef)

\* Faulty variant: a call on a completed task clears its flag again.
completeTaskReopensCompleted(i) ==
    LET task == tasks[i]
        done == markComplete(tasks, walks, i)
        next_due_date == getNextOccurrence(task)
        n == Len(tasks) + 1
        new_task == Task(TaskIdOf(n), task.description, next_due_date[1],
                         task.priority, NoRef, task.user, task.pet, task.recurrence)
    IN  IF task.isCompleted
        THEN Outcome([tasks EXCEPT ![i].isCompleted = FALSE], walks, userWalks,
                     petTasks, NoRef)
        ELSE IF Truthy(task.recurrence) /\ next_due_date # Nothing
        THEN Outcome(Append(done.tasks, new_task), done.walks, userWalks,
                     IF task.pet # None
                     THEN [petTasks EXCEPT ![task.pet] = Append(@, n)]
                     ELSE petTasks,
                     n)
        ELSE Outcome(done.tasks, done.walks, userWalks, petTasks, NoRef)

\* Scheduler.completeTask on task i of User.tasks.
completeTask(i) ==
    LET task == tasks[i]
        done == markComplete(tasks, walks, i)
        next_due_date == getNextOccurrence(task)
        n == Len(tasks) + 1
        new_task == Task(TaskIdOf(n), task.description, next_due_date[1],
                         task.priority, NoRef, task.user, task.pet, task.recurrence)
    IN  IF Truthy(task.recurrence) /\ next_due_date # Nothing
        THEN Outcome(Append(done.tasks, new_task), done.walks, userWalks,
                     IF task.pet # None
                     THEN [petTasks EXCEPT ![task.pet] = Append(@, n)]
                     ELSE petTasks,
                     n)
        ELSE Outcome(done.tasks, done.walks, userWalks, petTasks, NoRef)

\* Faulty variant: the factory runs the conflict detector (default duration)
\* and creates nothing on a conflict.
createRecurringTaskChecksConflict(pet, description, start_time, priority, recurrence) ==
    LET n == Len(tasks) + 1
        task == Task(TaskIdOf(n), description, start_time, priority, NoRef,
                     UserId, pet, recurrence)
    IN  IF hasConflict(pet, start_time, 30)[1]
        THEN Outcome(tasks, walks, userWalks, petTasks, NoRef)
        ELSE Outcome(Append(tasks, task), walks, userWalks,
                     [petTasks EXCEPT ![pet] = Append(@, n)], n)

\* Scheduler.createRecurringTask
createRecurringTask(pet, description, start_time, priority, recurrence) ==
    LET n == Len(tasks) + 1
        task == Task(TaskIdOf(n), description, start_time, priority, NoRef,
                     UserId, pet, recurrence)
    IN  Outcome(Append(tasks, task), walks, userWalks,
                [petTasks EXCEPT ![pet] = Append(@, n)], n)

\* Faulty variant: the clone is due at the date the task had, not at its
\* next occurrence.
RescheduleTaskClonesOldDate(i, ts, ws, now) ==
    LET task == ts[i]
        next_occurrence == getNextOccurrence(task)
    IN  IF task.dueDate < now /\ ~task.isCompleted /\ next_occurrence # Nothing
        THEN LET moved == [ts EXCEPT ![i].dueDate = next_occurrence[1]]
                 done == markComplete(moved, ws, i)
                 new_task == Task(TaskIdOf(Len(ts) + 1), task.description,
                                  task.dueDate, task.priority, NoRef,
                                  UserId, task.pet, task.recurrence)
                 ws2 == IF task.walk # NoRef
                        THEN [done.walks EXCEPT
                                ![task.walk].scheduledTime = next_occurrence[1],
                                ![task.walk].status = "scheduled"]
                        ELSE done.walks
             IN  [tasks |-> Append(done.tasks, new_task), walks |-> ws2]
        ELSE [tasks |-> ts, walks |-> ws]

\* Faulty variant: the walk of a moved task keeps its scheduled time.
RescheduleTaskLeavesWalk(i, ts, ws, now) ==
    LET task == ts[i]
        next_occurrence == getNextOccurrence(task)
    IN  IF task.dueDate < now /\ ~task.isCompleted /\ next_occurrence # Nothing
        THEN LET moved == [ts EXCEPT ![i].dueDate = next_occurrence[1]]
                 done == markComplete(moved, ws, i)
                 new_task == Task(TaskIdOf(Len(ts) + 1), task.description,
                                  next_occurrence[1], task.priority, NoRef,
                                  UserId, task.pet, task.recurrence)
             IN  [tasks |-> Append(done.tasks, new_task), walks |-> done.walks]
        ELSE [tasks |-> ts, walks |-> ws]

\* Faulty variant: the completion flag is not looked at.
RescheduleTaskIgnoresCompletion(i, ts, ws, now) ==
    LET task == ts[i]
        next_occurrence == getNextOccurrence(task)
    IN  IF task.dueDate < now /\ next_occurrence # Nothing
        THEN LET moved == [ts EXCEPT ![i].dueDate = next_occurrence[1]]
                 done == markComplete(moved, ws, i)
                 new_task == Task(TaskIdOf(Len(ts) + 1), task.description,
                                  next_occurrence[1], task.priority, NoRef,
                                  UserId, task.pet, task.recurrence)
                 ws2 == IF task.walk # NoRef
                        THEN [done.walks EXCEPT
                                ![task.walk].scheduledTime = next_occurrence[1],
                                ![task.walk].status = "scheduled"]
                        ELSE done.walks
             IN  [tasks |-> Append(done.tasks, new_task), walks |-> ws2]
        ELSE [tasks |-> ts, walks |-> ws]

\* One iteration of the loop of rescheduleMissedTasks (lines 399-418), on
\* task i of the list ts: the list and the walks after it.
RescheduleTask(i, ts, ws, now) ==
    LET task == ts[i]
        next_occurrence == getNextOccurrence(task)
    IN  IF task.dueDate < now /\ ~task.isCompleted /\ next_occurrence # Nothing
        THEN LET moved == [ts EXCEPT ![i].dueDate = next_occurrence[1]]
                 done == markComplete(moved, ws, i)
                 new_task == Task(TaskIdOf(Len(ts) + 1), task.description,
                                  next_occurrence[1], task.priority, NoRef,
                                  UserId, task.pet, task.recurrence)
                 ws2 == IF task.walk # NoRef
                        THEN [done.walks EXCEPT
                                ![task.walk].scheduledTime = next_occurrence[1],
                                ![task.walk].status = "scheduled"]
                        ELSE done.walks
             IN  [tasks |-> Append(done.tasks, new_task), walks |-> ws2]
        ELSE [tasks |-> ts, walks |-> ws]

\* Faulty variant: the loop runs over the tasks the list held when the call
\* started and never reaches the ones it appends.
RECURSIVE RescheduleScanOverCopy(_, _, _, _)
RescheduleScanOverCopy(i, ts, ws, now) ==
    IF i > Len(tasks) THEN [tasks |-> ts, walks |-> ws]
    ELSE LET r == RescheduleTask(i, ts, ws, now)
         IN  RescheduleScanOverCopy(i + 1, r.tasks, r.walks, now)

\* The loop of rescheduleMissedTasks from position i of self.user.tasks, which
\* grows while the loop runs.
RECURSIVE RescheduleScan(_, _, _, _)
RescheduleScan(i, ts, ws, now) ==
    IF i > Len(ts) THEN [tasks |-> ts, walks |-> ws]
    ELSE LET r == RescheduleTask(i, ts, ws, now)
         IN  RescheduleScan(i + 1, r.tasks, r.walks, now)

\* Scheduler.rescheduleMissedTasks, with now = datetime.now().
rescheduleMissedTasks(now) ==
    LET r == RescheduleScan(1, tasks, walks, now)
    IN  Outcome(r.tasks, r.walks, userWalks, petTasks, NoRef)

\* A caller appends a task of its own to User.tasks and the pet's list
\* (main.py 41-51, tests 459-475); walk_duration Nothing: no walk.
appendTask(taskId, description, pet, dueDate, priority, walk_duration, recurrence) ==
    LET n == Len(tasks) + 1
        w == Len(walks) + 1
        has_walk == walk_duration # Nothing
        task == Task(taskId, description, dueDate, priority,
                     IF has_walk THEN w ELSE NoRef, UserId, pet, recurrence)
    IN  Outcome(Append(tasks, task),
                IF has_walk
                THEN Append(walks, Walk("walk_conflict", pet, dueDate, walk_duration[1]))
                ELSE walks,
                userWalks,
                [petTasks EXCEPT ![pet] = Append(@, n)], n)

\* ----------------------------------------------------------------- queries
\* Minute 0 of the model is 08:00; a day starts 8 hours earlier.
DayStart == 8 * 60

\* datetime.date(): the calendar day a time falls on.
DateOf(t) == (t + DayStart) \div DayMinutes

\* Task.isForToday, with now = datetime.now().
isForToday(task, now) == DateOf(task.dueDate) = DateOf(now)

\* self.user.tasks as a list of task references.
AllTasks == [k \in 1..Len(tasks) |-> k]

\* The clock readings of one pass over n tasks: isForToday reads
\* datetime.now() anew for every task, and the clock never runs backwards.
ClockReads(n) ==
    {clock \in [1..n -> QueryNowChoices] :
        \A k \in 1..(n - 1) : clock[k] <= clock[k + 1]}

\* User.getTodaysTasks: the comprehension calls task.isForToday() on every
\* task of self.tasks in turn, clock[i] being what datetime.now() returns in
\* the call on task i.
getTodaysTasks(clock) ==
    SelectSeq(AllTasks,
              LAMBDA i : isForToday(tasks[i], clock[i]) /\ ~tasks[i].isCompleted)

\* Python's tuple comparison a < b for two keys of the same length.
KeyLess(a, b) ==
    \E k \in 1..Len(a) : a[k] < b[k] /\ \A j \in 1..(k - 1) : a[j] = b[j]

\* One step of the stable sort: x goes before the first element whose key
\* is greater than x's, so behind the elements with an equal key.
InsertSorted(out, x, key) ==
    LET later == {q \in 1..Len(out) : KeyLess(key[x], key[out[q]])}
        at == IF later = {} THEN Len(out) + 1
              ELSE CHOOSE q \in later : \A r \in later : q <= r
    IN  SubSeq(out, 1, at - 1) \o <<x>> \o SubSeq(out, at, Len(out))

RECURSIVE SortedFrom(_, _, _, _)
SortedFrom(list, k, key, out) ==
    IF k > Len(list) THEN out
    ELSE SortedFrom(list, k + 1, key, InsertSorted(out, list[k], key))

\* Python's sorted(list, key=...): a new list, stable, ascending by key.
sorted(list, key) == SortedFrom(list, 1, key, <<>>)

\* Faulty variant: latest first.
sortTasksByTimeDescending(list) ==
    sorted(list, [i \in 1..Len(tasks) |-> <<0 - tasks[i].dueDate>>])

\* Scheduler.sortTasksByTime
sortTasksByTime(list) ==
    sorted(list, [i \in 1..Len(tasks) |-> <<tasks[i].dueDate>>])

\* priority_order of sortTasksByPriority.
priority_order == [high |-> 0, medium |-> 1, low |-> 2]

\* priority_order.get(priority, 3)
PriorityRank(priority) ==
    IF priority \in DOMAIN priority_order THEN priority_order[priority] ELSE 3

\* Faulty variant: the key is (dueDate, rank).
sortTasksByPriorityTimeFirst(list) ==
    sorted(list, [i \in 1..Len(tasks) |->
                     <<tasks[i].dueDate, PriorityRank(tasks[i].priority)>>])

\* Scheduler.sortTasksByPriority
sortTasksByPriority(list) ==
    sorted(list, [i \in 1..Len(tasks) |->
                     <<PriorityRank(tasks[i].priority), tasks[i].dueDate>>])

\* The first loop of getOrganizedTodaysTasks from today_tasks[k]: organized
\* is the dict as its items in insertion order.
RECURSIVE GroupScan(_, _, _)
GroupScan(today_tasks, k, organized) ==
    IF k > Len(today_tasks) THEN organized
    ELSE LET task == tasks[today_tasks[k]]
             pet_name == IF task.pet # None THEN task.pet ELSE "General"
             held == {g \in 1..Len(organized) : organized[g].name = pet_name}
         IN  IF held = {}
             THEN GroupScan(today_tasks, k + 1,
                            Append(organized,
                                   [name |-> pet_name, tasks |-> <<today_tasks[k]>>]))
             ELSE GroupScan(today_tasks, k + 1,
                            [g \in 1..Len(organized) |->
                                IF g \in held
                                THEN [organized[g] EXCEPT
                                        !.tasks = Append(@, today_tasks[k])]
                                ELSE organized[g]])

\* Scheduler.getOrganizedTodaysTasks, with the clock readings of its
\* getTodaysTasks call.
getOrganizedTodaysTasks(clock) ==
    LET organized == GroupScan(getTodaysTasks(clock), 1, <<>>)
    IN  [g \in 1..Len(organized) |->
            [organized[g] EXCEPT !.tasks = sortTasksByPriority(@)]]

\* A str is the sequence of its code points.
\* The characters str.lower() changes to one other character, in code point
\* order, and below what it changes each of them to.  The capital sigma (931)
\* is listed with the small sigma it becomes on its own.
UpperLetters ==
    <<65, 66, 67, 68, 69, 70, 71, 72, 73, 74, 75, 76,
      77, 78, 79, 80, 81, 82, 83, 84, 85, 86, 87, 88,
      89, 90, 192, 193, 194, 195, 196, 197, 198, 199, 200, 201,
      202, 203, 204, 205, 206, 207, 208, 209, 210, 211, 212, 213,
      214, 216, 217, 218, 219, 220, 221, 222, 256, 258, 260, 262,
      264, 266, 268, 270, 272, 274, 276, 278, 280, 282, 284, 286,
      288, 290, 292, 294, 296, 298, 300, 302, 306, 308, 310, 313,
      315, 317, 319, 321, 323, 325, 327, 330, 332, 334, 336, 338,
      340, 342, 344, 346, 348, 350, 352, 354, 356, 358, 360, 362,
      364, 366, 368, 370, 372, 374, 376, 377, 379, 381, 385, 386,
      388, 390, 391, 393, 394, 395, 398, 399, 400, 401, 403, 404,
      406, 407, 408, 412, 413, 415, 416, 418, 420, 422, 423, 425,
      428, 430, 431, 433, 434, 435, 437, 439, 440, 444, 452, 453,
      455, 456, 458, 459, 461, 463, 465, 467, 469, 471, 473, 475,
      478, 480, 482, 484, 486, 488, 490, 492, 494, 497, 498, 500,
      502, 503, 504, 506, 508, 510, 512, 514, 516, 518, 520, 522,
      524, 526, 528, 530, 532, 534, 536, 538, 540, 542, 544, 546,
      548, 550, 552, 554, 556, 558, 560, 562, 570, 571, 573, 574,
      577, 579, 580, 581, 582, 584, 586, 588, 590, 880, 882, 886,
      895, 902, 904, 905, 906, 908, 910, 911, 913, 914, 915, 916,
      917, 918, 919, 920, 921, 922, 923, 924, 925, 926, 927, 928,
      929, 931, 932, 933, 934, 935, 936, 937, 938, 939, 975, 984,
      986, 988, 990, 992, 994, 996, 998, 1000, 1002, 1004, 1006, 1012,
      1015, 1017, 1018, 1021, 1022, 1023, 1024, 1025, 1026, 1027, 1028, 1029,
      1030, 1031, 1032, 1033, 1034, 1035, 1036, 1037, 1038, 1039, 1040, 1041,
      1042, 1043, 1044, 1045, 1046, 1047, 1048, 1049, 1050, 1051, 1052, 1053,
      1054, 1055, 1056, 1057, 1058, 1059, 1060, 1061, 1062, 1063, 1064, 1065,
      1066, 1067, 1068, 1069, 1070, 1071, 1120, 1122, 1124, 1126, 1128, 1130,
      1132, 1134, 1136, 1138, 1140, 1142, 1144, 1146, 1148, 1150, 1152, 1162,
      1164, 1166, 1168, 1170, 1172, 1174, 1176, 1178, 1180, 1182, 1184, 1186,
      1188, 1190, 1192, 1194, 1196, 1198, 1200, 1202, 1204, 1206, 1208, 1210,
      1212, 1214, 1216, 1217, 1219, 1221, 1223, 1225, 1227, 1229, 1232, 1234,
      1236, 1238, 1240, 1242, 1244, 1246, 1248, 1250, 1252, 1254, 1256, 1258,
      1260, 1262, 1264, 1266, 1268, 1270, 1272, 1274, 1276, 1278, 1280, 1282,
      1284, 1286, 1288, 1290, 1292, 1294, 1296, 1298, 1300, 1302, 1304, 1306,
      1308, 1310, 1312, 1314, 1316, 1318, 1320, 1322, 1324, 1326, 1329, 1330,
      1331, 1332, 1333, 1334, 1335, 1336, 1337, 1338, 1339, 1340, 1341, 1342,
      1343, 1344, 1345, 1346, 1347, 1348, 1349, 1350, 1351, 1352, 1353, 1354,
      1355, 1356, 1357, 1358, 1359, 1360, 1361, 1362, 1363, 1364, 1365, 1366,
      4256, 4257, 4258, 4259, 4260, 4261, 4262, 4263, 4264, 4265, 4266, 4267,
      4268, 4269, 4270, 4271, 4272, 4273, 4274, 4275, 4276, 4277, 4278, 4279,
      4280, 4281, 4282, 4283, 4284, 4285, 4286, 4287, 4288, 4289, 4290, 4291,
      4292, 4293, 4295, 4301, 5024, 5025, 5026, 5027, 5028, 5029, 5030, 5031,
      5032, 5033, 5034, 5035, 5036, 5037, 5038, 5039, 5040, 5041, 5042, 5043,
      5044, 5045, 5046, 5047, 5048, 5049, 5050, 5051, 5052, 5053, 5054, 5055,
      5056, 5057, 5058, 5059, 5060, 5061, 5062, 5063, 5064, 5065, 5066, 5067,
      5068, 5069, 5070, 5071, 5072, 5073, 5074, 5075, 5076, 5077, 5078, 5079,
      5080, 5081, 5082, 5083, 5084, 5085, 5086, 5087, 5088, 5089, 5090, 5091,
      5092, 5093, 5094, 5095, 5096, 5097, 5098, 5099, 5100, 5101, 5102, 5103,
      5104, 5105, 5106, 5107, 5108, 5109, 7312, 7313, 7314, 7315, 7316, 7317,
      7318, 7319, 7320, 7321, 7322, 7323, 7324, 7325, 7326, 7327, 7328, 7329,
      7330, 7331, 7332, 7333, 7334, 7335, 7336, 7337, 7338, 7339, 7340, 7341,
      7342, 7343, 7344, 7345, 7346, 7347, 7348, 7349, 7350, 7351, 7352, 7353,
      7354, 7357, 7358, 7359, 7680, 7682, 7684, 7686, 7688, 7690, 7692, 7694,
      7696, 7698, 7700, 7702, 7704, 7706, 7708, 7710, 7712, 7714, 7716, 7718,
      7720, 7722, 7724, 7726, 7728, 7730, 7732, 7734, 7736, 7738, 7740, 7742,
      7744, 7746, 7748, 7750, 7752, 7754, 7756, 7758, 7760, 7762, 7764, 7766,
      7768, 7770, 7772, 7774, 7776, 7778, 7780, 7782, 7784, 7786, 7788, 7790,
      7792, 7794, 7796, 7798, 7800, 7802, 7804, 7806, 7808, 7810, 7812, 7814,
      7816, 7818, 7820, 7822, 7824, 7826, 7828, 7838, 7840, 7842, 7844, 7846,
      7848, 7850, 7852, 7854, 7856, 7858, 7860, 7862, 7864, 7866, 7868, 7870,
      7872, 7874, 7876, 7878, 7880, 7882, 7884, 7886, 7888, 7890, 7892, 7894,
      7896, 7898, 7900, 7902, 7904, 7906, 7908, 7910, 7912, 7914, 7916, 7918,
      7920, 7922, 7924, 7926, 7928, 7930, 7932, 7934, 7944, 7945, 7946, 7947,
      7948, 7949, 7950, 7951, 7960, 7961, 7962, 7963, 7964, 7965, 7976, 7977,
      7978, 7979, 7980, 7981, 7982, 7983, 7992, 7993, 7994, 7995, 7996, 7997,
      7998, 7999, 8008, 8009, 8010, 8011, 8012, 8013, 8025, 8027, 8029, 8031,
      8040, 8041, 8042, 8043, 8044, 8045, 8046, 8047, 8072, 8073, 8074, 8075,
      8076, 8077, 8078, 8079, 8088, 8089, 8090, 8091, 8092, 8093, 8094, 8095,
      8104, 8105, 8106, 8107, 8108, 8109, 8110, 8111, 8120, 8121, 8122, 8123,
      8124, 8136, 8137, 8138, 8139, 8140, 8152, 8153, 8154, 8155, 8168, 8169,
      8170, 8171, 8172, 8184, 8185, 8186, 8187, 8188, 8486, 8490, 8491, 8498,
      8544, 8545, 8546, 8547, 8548, 8549, 8550, 8551, 8552, 8553, 8554, 8555,
      8556, 8557, 8558, 8559, 8579, 9398, 9399, 9400, 9401, 9402, 9403, 9404,
      9405, 9406, 9407, 9408, 9409, 9410, 9411, 9412, 9413, 9414, 9415, 9416,
      9417, 9418, 9419, 9420, 9421, 9422, 9423, 11264, 11265, 11266, 11267, 11268,
      11269, 11270, 11271, 11272, 11273, 11274, 11275, 11276, 11277, 11278, 11279, 11280,
      11281, 11282, 11283, 11284, 11285, 11286, 11287, 11288, 11289, 11290, 11291, 11292,
      11293, 11294, 11295, 11296, 11297, 11298, 11299, 11300, 11301, 11302, 11303, 11304,
      11305, 11306, 11307, 11308, 11309, 11310, 11311, 11360, 11362, 11363, 11364, 11367,
      11369, 11371, 11373, 11374, 11375, 11376, 11378, 11381, 11390, 11391, 11392, 11394,
      11396, 11398, 11400, 11402, 11404, 11406, 11408, 11410, 11412, 11414, 11416, 11418,
      11420, 11422, 11424, 11426, 11428, 11430, 11432, 11434, 11436, 11438, 11440, 11442,
      11444, 11446, 11448, 11450, 11452, 11454, 11456, 11458, 11460, 11462, 11464, 11466,
      11468, 11470, 11472, 11474, 11476, 11478, 11480, 11482, 11484, 11486, 11488, 11490,
      11499, 11501, 11506, 42560, 42562, 42564, 42566, 42568, 42570, 42572, 42574, 42576,
      42578, 42580, 42582, 42584, 42586, 42588, 42590, 42592, 42594, 42596, 42598, 42600,
      42602, 42604, 42624, 42626, 42628, 42630, 42632, 42634, 42636, 42638, 42640, 42642,
      42644, 42646, 42648, 42650, 42786, 42788, 42790, 42792, 42794, 42796, 42798, 42802,
      42804, 42806, 42808, 42810, 42812, 42814, 42816, 42818, 42820, 42822, 42824, 42826,
      42828, 42830, 42832, 42834, 42836, 42838, 42840, 42842, 42844, 42846, 42848, 42850,
      42852, 42854, 42856, 42858, 42860, 42862, 42873, 42875, 42877, 42878, 42880, 42882,
      42884, 42886, 42891, 42893, 42896, 42898, 42902, 42904, 42906, 42908, 42910, 42912,
      42914, 42916, 42918, 42920, 42922, 42923, 42924, 42925, 42926, 42928, 42929, 42930,
      42931, 42932, 42934, 42936, 42938, 42940, 42942, 42944, 42946, 42948, 42949, 42950,
      42951, 42953, 42960, 42966, 42968, 42997, 65313, 65314, 65315, 65316, 65317, 65318,
      65319, 65320, 65321, 65322, 65323, 65324, 65325, 65326, 65327, 65328, 65329, 65330,
      65331, 65332, 65333, 65334, 65335, 65336, 65337, 65338, 66560, 66561, 66562, 66563,
      66564, 66565, 66566, 66567, 66568, 66569, 66570, 66571, 66572, 66573, 66574, 66575,
      66576, 66577, 66578, 66579, 66580, 66581, 66582, 66583, 66584, 66585, 66586, 66587,
      66588, 66589, 66590, 66591, 66592, 66593, 66594, 66595, 66596, 66597, 66598, 66599,
      66736, 66737, 66738, 66739, 66740, 66741, 66742, 66743, 66744, 66745, 66746, 66747,
      66748, 66749, 66750, 66751, 66752, 66753, 66754, 66755, 66756, 66757, 66758, 66759,
      66760, 66761, 66762, 66763, 66764, 66765, 66766, 66767, 66768, 66769, 66770, 66771,
      66928, 66929, 66930, 66931, 66932, 66933, 66934, 66935, 66936, 66937, 66938, 66940,
      66941, 66942, 66943, 66944, 66945, 66946, 66947, 66948, 66949, 66950, 66951, 66952,
      66953, 66954, 66956, 66957, 66958, 66959, 66960, 66961, 66962, 66964, 66965, 68736,
      68737, 68738, 68739, 68740, 68741, 68742, 68743, 68744, 68745, 68746, 68747, 68748,
      68749, 68750, 68751, 68752, 68753, 68754, 68755, 68756, 68757, 68758, 68759, 68760,
      68761, 68762, 68763, 68764, 68765, 68766, 68767, 68768, 68769, 68770, 68771, 68772,
      68773, 68774, 68775, 68776, 68777, 68778, 68779, 68780, 68781, 68782, 68783, 68784,
      68785, 68786, 71840, 71841, 71842, 71843, 71844, 71845, 71846, 71847, 71848, 71849,
      71850, 71851, 71852, 71853, 71854, 71855, 71856, 71857, 71858, 71859, 71860, 71861,
      71862, 71863, 71864, 71865, 71866, 71867, 71868, 71869, 71870, 71871, 93760, 93761,
      93762, 93763, 93764, 93765, 93766, 93767, 93768, 93769, 93770, 93771, 93772, 93773,
      93774, 93775, 93776, 93777, 93778, 93779, 93780, 93781, 93782, 93783, 93784, 93785,
      93786, 93787, 93788, 93789, 93790, 93791, 125184, 125185, 125186, 125187, 125188, 125189,
      125190, 125191, 125192, 125193, 125194, 125195, 125196, 125197, 125198, 125199, 125200, 125201,
      125202, 125203, 125204, 125205, 125206, 125207, 125208, 125209, 125210, 125211, 125212, 125213,
      125214, 125215, 125216, 125217>>
LowerLetters ==
    <<97, 98, 99, 100, 101, 102, 103, 104, 105, 106, 107, 108,
      109, 110, 111, 112, 113, 114, 115, 116, 117, 118, 119, 120,
      121, 122, 224, 225, 226, 227, 228, 229, 230, 231, 232, 233,
      234, 235, 236, 237, 238, 239, 240, 241, 242, 243, 244, 245,
      246, 248, 249, 250, 251, 252, 253, 254, 257, 259, 261, 263,
      265, 267, 269, 271, 273, 275, 277, 279, 281, 283, 285, 287,
      289, 291, 293, 295, 297, 299, 301, 303, 307, 309, 311, 314,
      316, 318, 320, 322, 324, 326, 328, 331, 333, 335, 337, 339,
      341, 343, 345, 347, 349, 351, 353, 355, 357, 359, 361, 363,
      365, 367, 369, 371, 373, 375, 255, 378, 380, 382, 595, 387,
      389, 596, 392, 598, 599, 396, 477, 601, 603, 402, 608, 611,
      617, 616, 409, 623, 626, 629, 417, 419, 421, 640, 424, 643,
      429, 648, 432, 650, 651, 436, 438, 658, 441, 445, 454, 454,
      457, 457, 460, 460, 462, 464, 466, 468, 470, 472, 474, 476,
      479, 481, 483, 485, 487, 489, 491, 493, 495, 499, 499, 501,
      405, 447, 505, 507, 509, 511, 513, 515, 517, 519, 521, 523,
      525, 527, 529, 531, 533, 535, 537, 539, 541, 543, 414, 547,
      549, 551, 553, 555, 557, 559, 561, 563, 11365, 572, 410, 11366,
      578, 384, 649, 652, 583, 585, 587, 589, 591, 881, 883, 887,
      1011, 940, 941, 942, 943, 972, 973, 974, 945, 946, 947, 948,
      949, 950, 951, 952, 953, 954, 955, 956, 957, 958, 959, 960,
      961, 963, 964, 965, 966, 967, 968, 969, 970, 971, 983, 985,
      987, 989, 991, 993, 995, 997, 999, 1001, 1003, 1005, 1007, 952,
      1016, 1010, 1019, 891, 892, 893, 1104, 1105, 1106, 1107, 1108, 1109,
      1110, 1111, 1112, 1113, 1114, 1115, 1116, 1117, 1118, 1119, 1072, 1073,
      1074, 1075, 1076, 1077, 1078, 1079, 1080, 1081, 1082, 1083, 1084, 1085,
      1086, 1087, 1088, 1089, 1090, 1091, 1092, 1093, 1094, 1095, 1096, 1097,
      1098, 1099, 1100, 1101, 1102, 1103, 1121, 1123, 1125, 1127, 1129, 1131,
      1133, 1135, 1137, 1139, 1141, 1143, 1145, 1147, 1149, 1151, 1153, 1163,
      1165, 1167, 1169, 1171, 1173, 1175, 1177, 1179, 1181, 1183, 1185, 1187,
      1189, 1191, 1193, 1195, 1197, 1199, 1201, 1203, 1205, 1207, 1209, 1211,
      1213, 1215, 1231, 1218, 1220, 1222, 1224, 1226, 1228, 1230, 1233, 1235,
      1237, 1239, 1241, 1243, 1245, 1247, 1249, 1251, 1253, 1255, 1257, 1259,
      1261, 1263, 1265, 1267, 1269, 1271, 1273, 1275, 1277, 1279, 1281, 1283,
      1285, 1287, 1289, 1291, 1293, 1295, 1297, 1299, 1301, 1303, 1305, 1307,
      1309, 1311, 1313, 1315, 1317, 1319, 1321, 1323, 1325, 1327, 1377, 1378,
      1379, 1380, 1381, 1382, 1383, 1384, 1385, 1386, 1387, 1388, 1389, 1390,
      1391, 1392, 1393, 1394, 1395, 1396, 1397, 1398, 1399, 1400, 1401, 1402,
      1403, 1404, 1405, 1406, 1407, 1408, 1409, 1410, 1411, 1412, 1413, 1414,
      11520, 11521, 11522, 11523, 11524, 11525, 11526, 11527, 11528, 11529, 11530, 11531,
      11532, 11533, 11534, 11535, 11536, 11537, 11538, 11539, 11540, 11541, 11542, 11543,
      11544, 11545, 11546, 11547, 11548, 11549, 11550, 11551, 11552, 11553, 11554, 11555,
      11556, 11557, 11559, 11565, 43888, 43889, 43890, 43891, 43892, 43893, 43894, 43895,
      43896, 43897, 43898, 43899, 43900, 43901, 43902, 43903, 43904, 43905, 43906, 43907,
      43908, 43909, 43910, 43911, 43912, 43913, 43914, 43915, 43916, 43917, 43918, 43919,
      43920, 43921, 43922, 43923, 43924, 43925, 43926, 43927, 43928, 43929, 43930, 43931,
      43932, 43933, 43934, 43935, 43936, 43937, 43938, 43939, 43940, 43941, 43942, 43943,
      43944, 43945, 43946, 43947, 43948, 43949, 43950, 43951, 43952, 43953, 43954, 43955,
      43956, 43957, 43958, 43959, 43960, 43961, 43962, 43963, 43964, 43965, 43966, 43967,
      5112, 5113, 5114, 5115, 5116, 5117, 4304, 4305, 4306, 4307, 4308, 4309,
      4310, 4311, 4312, 4313, 4314, 4315, 4316, 4317, 4318, 4319, 4320, 4321,
      4322, 4323, 4324, 4325, 4326, 4327, 4328, 4329, 4330, 4331, 4332, 4333,
      4334, 4335, 4336, 4337, 4338, 4339, 4340, 4341, 4342, 4343, 4344, 4345,
      4346, 4349, 4350, 4351, 7681, 7683, 7685, 7687, 7689, 7691, 7693, 7695,
      7697, 7699, 7701, 7703, 7705, 7707, 7709, 7711, 7713, 7715, 7717, 7719,
      7721, 7723, 7725, 7727, 7729, 7731, 7733, 7735, 7737, 7739, 7741, 7743,
      7745, 7747, 7749, 7751, 7753, 7755, 7757, 7759, 7761, 7763, 7765, 7767,
      7769, 7771, 7773, 7775, 7777, 7779, 7781, 7783, 7785, 7787, 7789, 7791,
      7793, 7795, 7797, 7799, 7801, 7803, 7805, 7807, 7809, 7811, 7813, 7815,
      7817, 7819, 7821, 7823, 7825, 7827, 7829, 223, 7841, 7843, 7845, 7847,
      7849, 7851, 7853, 7855, 7857, 7859, 7861, 7863, 7865, 7867, 7869, 7871,
      7873, 7875, 7877, 7879, 7881, 7883, 7885, 7887, 7889, 7891, 7893, 7895,
      7897, 7899, 7901, 7903, 7905, 7907, 7909, 7911, 7913, 7915, 7917, 7919,
      7921, 7923, 7925, 7927, 7929, 7931, 7933, 7935, 7936, 7937, 7938, 7939,
      7940, 7941, 7942, 7943, 7952, 7953, 7954, 7955, 7956, 7957, 7968, 7969,
      7970, 7971, 7972, 7973, 7974, 7975, 7984, 7985, 7986, 7987, 7988, 7989,
      7990, 7991, 8000, 8001, 8002, 8003, 8004, 8005, 8017, 8019, 8021, 8023,
      8032, 8033, 8034, 8035, 8036, 8037, 8038, 8039, 8064, 8065, 8066, 8067,
      8068, 8069, 8070, 8071, 8080, 8081, 8082, 8083, 8084, 8085, 8086, 8087,
      8096, 8097, 8098, 8099, 8100, 8101, 8102, 8103, 8112, 8113, 8048, 8049,
      8115, 8050, 8051, 8052, 8053, 8131, 8144, 8145, 8054, 8055, 8160, 8161,
      8058, 8059, 8165, 8056, 8057, 8060, 8061, 8179, 969, 107, 229, 8526,
      8560, 8561, 8562, 8563, 8564, 8565, 8566, 8567, 8568, 8569, 8570, 8571,
      8572, 8573, 8574, 8575, 8580, 9424, 9425, 9426, 9427, 9428, 9429, 9430,
      9431, 9432, 9433, 9434, 9435, 9436, 9437, 9438, 9439, 9440, 9441, 9442,
      9443, 9444, 9445, 9446, 9447, 9448, 9449, 11312, 11313, 11314, 11315, 11316,
      11317, 11318, 11319, 11320, 11321, 11322, 11323, 11324, 11325, 11326, 11327, 11328,
      11329, 11330, 11331, 11332, 11333, 11334, 11335, 11336, 11337, 11338, 11339, 11340,
      11341, 11342, 11343, 11344, 11345, 11346, 11347, 11348, 11349, 11350, 11351, 11352,
      11353, 11354, 11355, 11356, 11357, 11358, 11359, 11361, 619, 7549, 637, 11368,
      11370, 11372, 593, 625, 592, 594, 11379, 11382, 575, 576, 11393, 11395,
      11397, 11399, 11401, 11403, 11405, 11407, 11409, 11411, 11413, 11415, 11417, 11419,
      11421, 11423, 11425, 11427, 11429, 11431, 11433, 11435, 11437, 11439, 11441, 11443,
      11445, 11447, 11449, 11451, 11453, 11455, 11457, 11459, 11461, 11463, 11465, 11467,
      11469, 11471, 11473, 11475, 11477, 11479, 11481, 11483, 11485, 11487, 11489, 11491,
      11500, 11502, 11507, 42561, 42563, 42565, 42567, 42569, 42571, 42573, 42575, 42577,
      42579, 42581, 42583, 42585, 42587, 42589, 42591, 42593, 42595, 42597, 42599, 42601,
      42603, 42605, 42625, 42627, 42629, 42631, 42633, 42635, 42637, 42639, 42641, 42643,
      42645, 42647, 42649, 42651, 42787, 42789, 42791, 42793, 42795, 42797, 42799, 42803,
      42805, 42807, 42809, 42811, 42813, 42815, 42817, 42819, 42821, 42823, 42825, 42827,
      42829, 42831, 42833, 42835, 42837, 42839, 42841, 42843, 42845, 42847, 42849, 42851,
      42853, 42855, 42857, 42859, 42861, 42863, 42874, 42876, 7545, 42879, 42881, 42883,
      42885, 42887, 42892, 613, 42897, 42899, 42903, 42905, 42907, 42909, 42911, 42913,
      42915, 42917, 42919, 42921, 614, 604, 609, 620, 618, 670, 647, 669,
      43859, 42933, 42935, 42937, 42939, 42941, 42943, 42945, 42947, 42900, 642, 7566,
      42952, 42954, 42961, 42967, 42969, 42998, 65345, 65346, 65347, 65348, 65349, 65350,
      65351, 65352, 65353, 65354, 65355, 65356, 65357, 65358, 65359, 65360, 65361, 65362,
      65363, 65364, 65365, 65366, 65367, 65368, 65369, 65370, 66600, 66601, 66602, 66603,
      66604, 66605, 66606, 66607, 66608, 66609, 66610, 66611, 66612, 66613, 66614, 66615,
      66616, 66617, 66618, 66619, 66620, 66621, 66622, 66623, 66624, 66625, 66626, 66627,
      66628, 66629, 66630, 66631, 66632, 66633, 66634, 66635, 66636, 66637, 66638, 66639,
      66776, 66777, 66778, 66779, 66780, 66781, 66782, 66783, 66784, 66785, 66786, 66787,
      66788, 66789, 66790, 66791, 66792, 66793, 66794, 66795, 66796, 66797, 66798, 66799,
      66800, 66801, 66802, 66803, 66804, 66805, 66806, 66807, 66808, 66809, 66810, 66811,
      66967, 66968, 66969, 66970, 66971, 66972, 66973, 66974, 66975, 66976, 66977, 66979,
      66980, 66981, 66982, 66983, 66984, 66985, 66986, 66987, 66988, 66989, 66990, 66991,
      66992, 66993, 66995, 66996, 66997, 66998, 66999, 67000, 67001, 67003, 67004, 68800,
      68801, 68802, 68803, 68804, 68805, 68806, 68807, 68808, 68809, 68810, 68811, 68812,
      68813, 68814, 68815, 68816, 68817, 68818, 68819, 68820, 68821, 68822, 68823, 68824,
      68825, 68826, 68827, 68828, 68829, 68830, 68831, 68832, 68833, 68834, 68835, 68836,
      68837, 68838, 68839, 68840, 68841, 68842, 68843, 68844, 68845, 68846, 68847, 68848,
      68849, 68850, 71872, 71873, 71874, 71875, 71876, 71877, 71878, 71879, 71880, 71881,
      71882, 71883, 71884, 71885, 71886, 71887, 71888, 71889, 71890, 71891, 71892, 71893,
      71894, 71895, 71896, 71897, 71898, 71899, 71900, 71901, 71902, 71903, 93792, 93793,
      93794, 93795, 93796, 93797, 93798, 93799, 93800, 93801, 93802, 93803, 93804, 93805,
      93806, 93807, 93808, 93809, 93810, 93811, 93812, 93813, 93814, 93815, 93816, 93817,
      93818, 93819, 93820, 93821, 93822, 93823, 125218, 125219, 125220, 125221, 125222, 125223,
      125224, 125225, 125226, 125227, 125228, 125229, 125230, 125231, 125232, 125233, 125234, 125235,
      125236, 125237, 125238, 125239, 125240, 125241, 125242, 125243, 125244, 125245, 125246, 125247,
      125248, 125249, 125250, 125251>>

\* The characters str.lower() passes over when it looks for the letters
\* around a capital sigma (Unicode Case_Ignorable), as ranges of code points.
CaseIgnorableRanges ==
    {<<39, 39>>, <<46, 46>>, <<58, 58>>, <<94, 94>>, <<96, 96>>,
     <<168, 168>>, <<173, 173>>, <<175, 175>>, <<180, 180>>, <<183, 184>>,
     <<688, 879>>, <<884, 885>>, <<890, 890>>, <<900, 901>>, <<903, 903>>,
     <<1155, 1161>>, <<1369, 1369>>, <<1375, 1375>>, <<1425, 1469>>, <<1471, 1471>>,
     <<1473, 1474>>, <<1476, 1477>>, <<1479, 1479>>, <<1524, 1524>>, <<1536, 1541>>,
     <<1552, 1562>>, <<1564, 1564>>, <<1600, 1600>>, <<1611, 1631>>, <<1648, 1648>>,
     <<1750, 1757>>, <<1759, 1768>>, <<1770, 1773>>, <<1807, 1807>>, <<1809, 1809>>,
     <<1840, 1866>>, <<1958, 1968>>, <<2027, 2037>>, <<2042, 2042>>, <<2045, 2045>>,
     <<2070, 2093>>, <<2137, 2139>>, <<2184, 2184>>, <<2192, 2193>>, <<2200, 2207>>,
     <<2249, 2306>>, <<2362, 2362>>, <<2364, 2364>>, <<2369, 2376>>, <<2381, 2381>>,
     <<2385, 2391>>, <<2402, 2403>>, <<2417, 2417>>, <<2433, 2433>>, <<2492, 2492>>,
     <<2497, 2500>>, <<2509, 2509>>, <<2530, 2531>>, <<2558, 2558>>, <<2561, 2562>>,
     <<2620, 2620>>, <<2625, 2626>>, <<2631, 2632>>, <<2635, 2637>>, <<2641, 2641>>,
     <<2672, 2673>>, <<2677, 2677>>, <<2689, 2690>>, <<2748, 2748>>, <<2753, 2757>>,
     <<2759, 2760>>, <<2765, 2765>>, <<2786, 2787>>, <<2810, 2815>>, <<2817, 2817>>,
     <<2876, 2876>>, <<2879, 2879>>, <<2881, 2884>>, <<2893, 2893>>, <<2901, 2902>>,
     <<2914, 2915>>, <<2946, 2946>>, <<3008, 3008>>, <<3021, 3021>>, <<3072, 3072>>,
     <<3076, 3076>>, <<3132, 3132>>, <<3134, 3136>>, <<3142, 3144>>, <<3146, 3149>>,
     <<3157, 3158>>, <<3170, 3171>>, <<3201, 3201>>, <<3260, 3260>>, <<3263, 3263>>,
     <<3270, 3270>>, <<3276, 3277>>, <<3298, 3299>>, <<3328, 3329>>, <<3387, 3388>>,
     <<3393, 3396>>, <<3405, 3405>>, <<3426, 3427>>, <<3457, 3457>>, <<3530, 3530>>,
     <<3538, 3540>>, <<3542, 3542>>, <<3633, 3633>>, <<3636, 3642>>, <<3654, 3662>>,
     <<3761, 3761>>, <<3764, 3772>>, <<3782, 3782>>, <<3784, 3789>>, <<3864, 3865>>,
     <<3893, 3893>>, <<3895, 3895>>, <<3897, 3897>>, <<3953, 3966>>, <<3968, 3972>>,
     <<3974, 3975>>, <<3981, 3991>>, <<3993, 4028>>, <<4038, 4038>>, <<4141, 4144>>,
     <<4146, 4151>>, <<4153, 4154>>, <<4157, 4158>>, <<4184, 4185>>, <<4190, 4192>>,
     <<4209, 4212>>, <<4226, 4226>>, <<4229, 4230>>, <<4237, 4237>>, <<4253, 4253>>,
     <<4348, 4348>>, <<4957, 4959>>, <<5906, 5908>>, <<5938, 5939>>, <<5970, 5971>>,
     <<6002, 6003>>, <<6068, 6069>>, <<6071, 6077>>, <<6086, 6086>>, <<6089, 6099>>,
     <<6103, 6103>>, <<6109, 6109>>, <<6155, 6159>>, <<6211, 6211>>, <<6277, 6278>>,
     <<6313, 6313>>, <<6432, 6434>>, <<6439, 6440>>, <<6450, 6450>>, <<6457, 6459>>,
     <<6679, 6680>>, <<6683, 6683>>, <<6742, 6742>>, <<6744, 6750>>, <<6752, 6752>>,
     <<6754, 6754>>, <<6757, 6764>>, <<6771, 6780>>, <<6783, 6783>>, <<6823, 6823>>,
     <<6832, 6862>>, <<6912, 6915>>, <<6964, 6964>>, <<6966, 6970>>, <<6972, 6972>>,
     <<6978, 6978>>, <<7019, 7027>>, <<7040, 7041>>, <<7074, 7077>>, <<7080, 7081>>,
     <<7083, 7085>>, <<7142, 7142>>, <<7144, 7145>>, <<7149, 7149>>, <<7151, 7153>>,
     <<7212, 7219>>, <<7222, 7223>>, <<7288, 7293>>, <<7376, 7378>>, <<7380, 7392>>,
     <<7394, 7400>>, <<7405, 7405>>, <<7412, 7412>>, <<7416, 7417>>, <<7468, 7530>>,
     <<7544, 7544>>, <<7579, 7679>>, <<8125, 8125>>, <<8127, 8129>>, <<8141, 8143>>,
     <<8157, 8159>>, <<8173, 8175>>, <<8189, 8190>>, <<8203, 8207>>, <<8216, 8217>>,
     <<8228, 8228>>, <<8231, 8231>>, <<8234, 8238>>, <<8288, 8292>>, <<8294, 8303>>,
     <<8305, 8305>>, <<8319, 8319>>, <<8336, 8348>>, <<8400, 8432>>, <<11388, 11389>>,
     <<11503, 11505>>, <<11631, 11631>>, <<11647, 11647>>, <<11744, 11775>>, <<11823, 11823>>,
     <<12293, 12293>>, <<12330, 12333>>, <<12337, 12341>>, <<12347, 12347>>, <<12441, 12446>>,
     <<12540, 12542>>, <<40981, 40981>>, <<42232, 42237>>, <<42508, 42508>>, <<42607, 42610>>,
     <<42612, 42621>>, <<42623, 42623>>, <<42652, 42655>>, <<42736, 42737>>, <<42752, 42785>>,
     <<42864, 42864>>, <<42888, 42890>>, <<42994, 42996>>, <<43000, 43001>>, <<43010, 43010>>,
     <<43014, 43014>>, <<43019, 43019>>, <<43045, 43046>>, <<43052, 43052>>, <<43204, 43205>>,
     <<43232, 43249>>, <<43263, 43263>>, <<43302, 43309>>, <<43335, 43345>>, <<43392, 43394>>,
     <<43443, 43443>>, <<43446, 43449>>, <<43452, 43453>>, <<43471, 43471>>, <<43493, 43494>>,
     <<43561, 43566>>, <<43569, 43570>>, <<43573, 43574>>, <<43587, 43587>>, <<43596, 43596>>,
     <<43632, 43632>>, <<43644, 43644>>, <<43696, 43696>>, <<43698, 43700>>, <<43703, 43704>>,
     <<43710, 43711>>, <<43713, 43713>>, <<43741, 43741>>, <<43756, 43757>>, <<43763, 43764>>,
     <<43766, 43766>>, <<43867, 43871>>, <<43881, 43883>>, <<44005, 44005>>, <<44008, 44008>>,
     <<44013, 44013>>, <<64286, 64286>>, <<64434, 64450>>, <<65024, 65039>>, <<65043, 65043>>,
     <<65056, 65071>>, <<65106, 65106>>, <<65109, 65109>>, <<65279, 65279>>, <<65287, 65287>>,
     <<65294, 65294>>, <<65306, 65306>>, <<65342, 65342>>, <<65344, 65344>>, <<65392, 65392>>,
     <<65438, 65439>>, <<65507, 65507>>, <<65529, 65531>>, <<66045, 66045>>, <<66272, 66272>>,
     <<66422, 66426>>, <<67456, 67461>>, <<67463, 67504>>, <<67506, 67514>>, <<68097, 68099>>,
     <<68101, 68102>>, <<68108, 68111>>, <<68152, 68154>>, <<68159, 68159>>, <<68325, 68326>>,
     <<68900, 68903>>, <<69291, 69292>>, <<69446, 69456>>, <<69506, 69509>>, <<69633, 69633>>,
     <<69688, 69702>>, <<69744, 69744>>, <<69747, 69748>>, <<69759, 69761>>, <<69811, 69814>>,
     <<69817, 69818>>, <<69821, 69821>>, <<69826, 69826>>, <<69837, 69837>>, <<69888, 69890>>,
     <<69927, 69931>>, <<69933, 69940>>, <<70003, 70003>>, <<70016, 70017>>, <<70070, 70078>>,
     <<70089, 70092>>, <<70095, 70095>>, <<70191, 70193>>, <<70196, 70196>>, <<70198, 70199>>,
     <<70206, 70206>>, <<70367, 70367>>, <<70371, 70378>>, <<70400, 70401>>, <<70459, 70460>>,
     <<70464, 70464>>, <<70502, 70508>>, <<70512, 70516>>, <<70712, 70719>>, <<70722, 70724>>,
     <<70726, 70726>>, <<70750, 70750>>, <<70835, 70840>>, <<70842, 70842>>, <<70847, 70848>>,
     <<70850, 70851>>, <<71090, 71093>>, <<71100, 71101>>, <<71103, 71104>>, <<71132, 71133>>,
     <<71219, 71226>>, <<71229, 71229>>, <<71231, 71232>>, <<71339, 71339>>, <<71341, 71341>>,
     <<71344, 71349>>, <<71351, 71351>>, <<71453, 71455>>, <<71458, 71461>>, <<71463, 71467>>,
     <<71727, 71735>>, <<71737, 71738>>, <<71995, 71996>>, <<71998, 71998>>, <<72003, 72003>>,
     <<72148, 72151>>, <<72154, 72155>>, <<72160, 72160>>, <<72193, 72202>>, <<72243, 72248>>,
     <<72251, 72254>>, <<72263, 72263>>, <<72273, 72278>>, <<72281, 72283>>, <<72330, 72342>>,
     <<72344, 72345>>, <<72752, 72758>>, <<72760, 72765>>, <<72767, 72767>>, <<72850, 72871>>,
     <<72874, 72880>>, <<72882, 72883>>, <<72885, 72886>>, <<73009, 73014>>, <<73018, 73018>>,
     <<73020, 73021>>, <<73023, 73029>>, <<73031, 73031>>, <<73104, 73105>>, <<73109, 73109>>,
     <<73111, 73111>>, <<73459, 73460>>, <<78896, 78904>>, <<92912, 92916>>, <<92976, 92982>>,
     <<92992, 92995>>, <<94031, 94031>>, <<94095, 94111>>, <<94176, 94177>>, <<94179, 94180>>,
     <<110576, 110579>>, <<110581, 110587>>, <<110589, 110590>>, <<113821, 113822>>, <<113824, 113827>>,
     <<118528, 118573>>, <<118576, 118598>>, <<119143, 119145>>, <<119155, 119170>>, <<119173, 119179>>,
     <<119210, 119213>>, <<119362, 119364>>, <<121344, 121398>>, <<121403, 121452>>, <<121461, 121461>>,
     <<121476, 121476>>, <<121499, 121503>>, <<121505, 121519>>, <<122880, 122886>>, <<122888, 122904>>,
     <<122907, 122913>>, <<122915, 122916>>, <<122918, 122922>>, <<123184, 123197>>, <<123566, 123566>>,
     <<123628, 123631>>, <<125136, 125142>>, <<125252, 125259>>, <<127995, 127999>>, <<917505, 917505>>,
     <<917536, 917631>>, <<917760, 917999>>}

\* The characters str.lower() takes for the letters of a word around a
\* capital sigma (Unicode Cased), those it passes over left out, as ranges
\* of code points.
CasedRanges ==
    {<<65, 90>>, <<97, 122>>, <<170, 170>>, <<181, 181>>, <<186, 186>>,
     <<192, 214>>, <<216, 246>>, <<248, 442>>, <<444, 447>>, <<452, 659>>,
     <<661, 687>>, <<880, 883>>, <<886, 887>>, <<891, 893>>, <<895, 895>>,
     <<902, 902>>, <<904, 906>>, <<908, 908>>, <<910, 929>>, <<931, 1013>>,
     <<1015, 1153>>, <<1162, 1327>>, <<1329, 1366>>, <<1376, 1416>>, <<4256, 4293>>,
     <<4295, 4295>>, <<4301, 4301>>, <<4304, 4346>>, <<4349, 4351>>, <<5024, 5109>>,
     <<5112, 5117>>, <<7296, 7304>>, <<7312, 7354>>, <<7357, 7359>>, <<7424, 7467>>,
     <<7531, 7543>>, <<7545, 7578>>, <<7680, 7957>>, <<7960, 7965>>, <<7968, 8005>>,
     <<8008, 8013>>, <<8016, 8023>>, <<8025, 8025>>, <<8027, 8027>>, <<8029, 8029>>,
     <<8031, 8061>>, <<8064, 8116>>, <<8118, 8124>>, <<8126, 8126>>, <<8130, 8132>>,
     <<8134, 8140>>, <<8144, 8147>>, <<8150, 8155>>, <<8160, 8172>>, <<8178, 8180>>,
     <<8182, 8188>>, <<8450, 8450>>, <<8455, 8455>>, <<8458, 8467>>, <<8469, 8469>>,
     <<8473, 8477>>, <<8484, 8484>>, <<8486, 8486>>, <<8488, 8488>>, <<8490, 8493>>,
     <<8495, 8500>>, <<8505, 8505>>, <<8508, 8511>>, <<8517, 8521>>, <<8526, 8526>>,
     <<8544, 8575>>, <<8579, 8580>>, <<9398, 9449>>, <<11264, 11387>>, <<11390, 11492>>,
     <<11499, 11502>>, <<11506, 11507>>, <<11520, 11557>>, <<11559, 11559>>, <<11565, 11565>>,
     <<42560, 42605>>, <<42624, 42651>>, <<42786, 42863>>, <<42865, 42887>>, <<42891, 42894>>,
     <<42896, 42954>>, <<42960, 42961>>, <<42963, 42963>>, <<42965, 42969>>, <<42997, 42998>>,
     <<43002, 43002>>, <<43824, 43866>>, <<43872, 43880>>, <<43888, 43967>>, <<64256, 64262>>,
     <<64275, 64279>>, <<65313, 65338>>, <<65345, 65370>>, <<66560, 66639>>, <<66736, 66771>>,
     <<66776, 66811>>, <<66928, 66938>>, <<66940, 66954>>, <<66956, 66962>>, <<66964, 66965>>,
     <<66967, 66977>>, <<66979, 66993>>, <<66995, 67001>>, <<67003, 67004>>, <<68736, 68786>>,
     <<68800, 68850>>, <<71840, 71903>>, <<93760, 93823>>, <<119808, 119892>>, <<119894, 119964>>,
     <<119966, 119967>>, <<119970, 119970>>, <<119973, 119974>>, <<119977, 119980>>, <<119982, 119993>>,
     <<119995, 119995>>, <<119997, 120003>>, <<120005, 120069>>, <<120071, 120074>>, <<120077, 120084>>,
     <<120086, 120092>>, <<120094, 120121>>, <<120123, 120126>>, <<120128, 120132>>, <<120134, 120134>>,
     <<120138, 120144>>, <<120146, 120485>>, <<120488, 120512>>, <<120514, 120538>>, <<120540, 120570>>,
     <<120572, 120596>>, <<120598, 120628>>, <<120630, 120654>>, <<120656, 120686>>, <<120688, 120712>>,
     <<120714, 120744>>, <<120746, 120770>>, <<120772, 120779>>, <<122624, 122633>>, <<122635, 122654>>,
     <<125184, 125251>>, <<127280, 127305>>, <<127312, 127337>>, <<127344, 127369>>}

\* str.lower() on single characters, as a function of the character.
LowerOf ==
    [c \in {UpperLetters[k] : k \in 1..Len(UpperLetters)} |->
        LowerLetters[CHOOSE k \in 1..Len(UpperLetters) : UpperLetters[k] = c]]

CaseIgnorable(c) == \E r \in CaseIgnorableRanges : r[1] <= c /\ c <= r[2]

CasedLetter(c) == \E r \in CasedRanges : r[1] <= c /\ c <= r[2]

\* Whether the capital sigma at place k of name ends a word for str.lower():
\* with the case-ignorable characters passed over, a cased letter comes
\* before it and none comes right after it.
FinalSigma(name, k) ==
    LET before == {j \in 1..(k - 1) : ~CaseIgnorable(name[j])}
        after == {j \in (k + 1)..Len(name) : ~CaseIgnorable(name[j])}
        prev == CHOOSE j \in before : \A m \in before : m <= j
        next == CHOOSE j \in after : \A m \in after : j <= m
    IN  /\ before # {}
        /\ CasedLetter(name[prev])
        /\ after # {} => ~CasedLetter(name[next])

\* str.lower() on the one-character string c, as the characters of the
\* result: the capital I with dot above (304) becomes i and a combining dot.
lowerChar(c) ==
    IF c = 304 THEN <<105, 775>>
    ELSE IF c \in DOMAIN LowerOf THEN <<LowerOf[c]>>
    ELSE <<c>>

\* The characters str.lower() puts for the character at place k of name: a
\* capital sigma (931) becomes the final small sigma (962) at the end of a
\* word and the small sigma (963) elsewhere.
lowerAt(name, k) ==
    IF name[k] = 931 THEN <<IF FinalSigma(name, k) THEN 962 ELSE 963>>
    ELSE lowerChar(name[k])

\* str.lower() of name from place k on.
RECURSIVE lowerFrom(_, _)
lowerFrom(name, k) ==
    IF k > Len(name) THEN <<>> ELSE lowerAt(name, k) \o lowerFrom(name, k + 1)

\* str.lower()
lower(name) == lowerFrom(name, 1)

\* Scheduler.getTasksByPetName
getTasksByPetName(pet_name) ==
    SelectSeq(AllTasks,
              LAMBDA i : /\ tasks[i].pet # None
                         /\ lower(PetName[tasks[i].pet]) = lower(pet_name))

\* Faulty variant: the flag is not compared with the argument.
getTasksByStatusIgnoresFlag(completed) ==
    SelectSeq(AllTasks, LAMBDA i : tasks[i].isCompleted)

\* Scheduler.getTasksByStatus
getTasksByStatus(completed) ==
    SelectSeq(AllTasks, LAMBDA i : tasks[i].isCompleted = completed)

\* Scheduler.getPendingTasks
getPendingTasks == SelectSeq(AllTasks, LAMBDA i : ~tasks[i].isCompleted)

\* The methods class Scheduler defines.
SchedulerMethods ==
    {"getAllTasks", "getTasksByPet", "getTasksByPriority", "scheduleWalk",
     "completeTask", "createRecurringTask", "sortTasksByTime",
     "sortTasksByPriority", "getOrganizedTodaysTasks", "getTasksByStatus",
     "getTasksByPetName", "getPendingTasks", "rescheduleMissedTasks",
     "hasConflict", "checkAllConflicts"}

\* The field the dataclass Scheduler declares (line 109).
SchedulerFields == {"user"}

\* What @dataclass generates for Scheduler and what every object inherits
\* (Python 3.11).
SchedulerBuiltins ==
    {"__annotations__", "__class__", "__dataclass_fields__",
     "__dataclass_params__", "__delattr__", "__dict__", "__dir__", "__doc__",
     "__eq__", "__format__", "__ge__", "__getattribute__", "__getstate__",
     "__gt__", "__hash__", "__init__", "__init_subclass__", "__le__", "__lt__",
     "__match_args__", "__module__", "__ne__", "__new__", "__reduce__",
     "__reduce_ex__", "__repr__", "__setattr__", "__sizeof__", "__str__",
     "__subclasshook__", "__weakref__"}

\* What evaluating scheduler.<name> raises when the object has no such
\* attribute.
AttributeError == "AttributeError"

\* Attribute lookup scheduler.<name>: the attribute that is found, named by
\* its name, or AttributeError.
SchedulerAttribute(name) ==
    IF name \in SchedulerMethods \cup SchedulerFields \cup SchedulerBuiltins
    THEN name
    ELSE AttributeError

\* Scheduler.getTasksByPet
getTasksByPet(pet) == SelectSeq(AllTasks, LAMBDA i : tasks[i].pet = pet)

\* Scheduler.getTasksByPriority
getTasksByPriority(priority) ==
    SelectSeq(AllTasks, LAMBDA i : tasks[i].priority = priority)

\* Faulty variant: list.sort() on the argument, which is then returned.
sortTasksByTimeInPlace(list) ==
    [ret |-> sortTasksByTime(list), arg |-> sortTasksByTime(list)]

\* A sortTasksByTime call: what it returns and what the list object passed
\* to it holds afterwards; sorted() builds a new list.
sortTasksByTimeCall(list) == [ret |-> sortTasksByTime(list), arg |-> list]

\* A sortTasksByPriority call, likewise.
sortTasksByPriorityCall(list) == [ret |-> sortTasksByPriority(list), arg |-> list]

\* ------------------------------------------------------------------- state
\* `last`: the operation that ran last and what it returned.
\* `chain[i]`: the due date task i's recurrence chain started from and the
\* number of completeTask expansions that led from it to task i.
Called(op, ret) == [op |-> op, ret |-> ret]

Start(t) == [origin |-> t, gen |-> 0]

\* chain after a step: a task that is new or whose due date was reassigned
\* starts a chain of its own, unless `links` names its predecessor.
Rechain(ts, links) ==
    [k \in 1..Len(ts) |->
        IF k <= Len(tasks) /\ ts[k].dueDate = tasks[k].dueDate THEN chain[k]
        ELSE IF k \in DOMAIN links
             THEN [origin |-> chain[links[k]].origin, gen |-> chain[links[k]].gen + 1]
             ELSE Start(ts[k].dueDate)]

\* The callers whose scheduleWalk calls may overlap in time.
Callers == {"caller_a", "caller_b"}

\* A caller that has not called yet.  pc is where its call stands, req its
\* arguments, walk the Walk it built, task the Task it built (a tuple of
\* one once built), at the place in User.tasks its task was appended at,
\* ret what the call returned.
Idle == [pc |-> "idle", req |-> <<>>, walk |-> NoRef, task |-> <<>>, at |-> 0,
         ret |-> NoRef]

\* No call in progress; mutex tells whether callers wrap scheduleWalk in a
\* mutual-exclusion region.
NoCalls(mutex) == [mutex |-> mutex, of |-> [c \in Callers |-> Idle]]

\* No rescheduleMissedTasks call is being followed: i is the position of
\* the for loop in self.user.tasks, start the length of the list when the
\* call began.
NoPass == [pc |-> "idle", i |-> 0, now |-> 0, start |-> 0]

\* A call's outcome becomes the state.
Commit(op, out, links) ==
    /\ tasks' = out.tasks
    /\ walks' = out.walks
    /\ userWalks' = out.userWalks
    /\ petTasks' = out.petTasks
    /\ chain' = Rechain(out.tasks, links)
    /\ last' = Called(op, out.ret)
    /\ calls' = calls
    /\ pass' = pass
    /\ pets' = pets

NoLinks == <<>>

Init ==
    /\ tasks = <<>>
    /\ walks = <<>>
    /\ userWalks = <<>>
    /\ petTasks = [p \in Pets |-> <<>>]
    /\ chain = <<>>
    /\ last = Called("init", NoRef)
    /\ calls = NoCalls(FALSE)
    /\ pass = NoPass
    /\ pets = MainPets

ScheduleWalk ==
    \E r \in WalkRequests :
        LET out == scheduleWalk(r[1], r[2], r[3])
        IN  /\ Len(out.tasks) <= MaxTasks
            /\ Commit("scheduleWalk", out, NoLinks)

CompleteTask ==
    \E i \in 1..Len(tasks) :
        LET out == completeTask(i)
        IN  /\ Len(out.tasks) <= MaxTasks
            /\ Commit("completeTask", out, (Len(tasks) + 1) :> i)

CreateRecurringTask ==
    \E r \in RecurringRequests :
        LET out == createRecurringTask(r[1], r[2], r[3], r[4], r[5])
        IN  /\ Len(out.tasks) <= MaxTasks
            /\ Commit("createRecurringTask", out, NoLinks)

\* now: what datetime.now() returns when the call starts.
RescheduleMissedTasks ==
    \E now \in NowChoices :
        LET out == rescheduleMissedTasks(now)
        IN  /\ Len(out.tasks) <= MaxTasks
            /\ Commit("rescheduleMissedTasks", out, NoLinks)

\* Task.markComplete called on task i by the caller (main.py 72).
MarkComplete ==
    \E i \in 1..Len(tasks) :
        LET done == markComplete(tasks, walks, i)
            out == Outcome(done.tasks, done.walks, userWalks, petTasks, NoRef)
        IN  /\ Len(out.tasks) <= MaxTasks
            /\ Commit("markComplete", out, NoLinks)

AppendTask ==
    \E r \in CallerTasks :
        LET out == appendTask(r[1], r[2], r[3], r[4], r[5], r[6], r[7])
        IN  /\ Len(out.tasks) <= MaxTasks
            /\ Commit("appendTask", out, NoLinks)

\* scheduleWalk called with whatever duration the caller passes.
ScheduleWalkAnyDuration ==
    \E r \in AnyDurationRequests :
        LET out == scheduleWalk(r[1], r[2], r[3])
        IN  /\ Len(out.tasks) <= MaxTasks
            /\ Commit("scheduleWalk", out, NoLinks)

AnyDurationNext ==
    \/ ScheduleWalkAnyDuration
    \/ CompleteTask
    \/ MarkComplete

\* A user with NamePets whose tasks a caller built: any list of NameTasks,
\* due at 09:00, uncompleted.
NameInit ==
    \E n \in 0..MaxQueryLen :
        \E f \in [1..n -> NameTasks] :
            /\ tasks = [k \in 1..n |->
                           Task(TaskIdOf(k), f[k][2], 60, "medium", NoRef, UserId,
                                f[k][1], None)]
            /\ walks = <<>>
            /\ userWalks = <<>>
            /\ petTasks = [p \in NamePets |->
                              SelectSeq([k \in 1..n |-> k], LAMBDA k : f[k][1] = p)]
            /\ chain = [k \in 1..n |-> Start(60)]
            /\ last = Called("init", NoRef)
            /\ calls = NoCalls(FALSE)
            /\ pass = NoPass
            /\ pets = [k \in 1..4 |->
                          [Pet(PetIdOf(k), <<"Buddy", "Emile", "Weiss", "Nikos">>[k],
                               "Mixed", 3) EXCEPT !.owner = UserId]]

\* A user whose tasks a caller built: any list of QueryTasks.
QueryInit ==
    \E n \in 0..MaxQueryLen :
        \E f \in [1..n -> QueryTasks] :
            /\ tasks = [k \in 1..n |->
                           [Task(TaskIdOf(k), f[k][2], f[k][3], f[k][4], NoRef,
                                 UserId, f[k][1], None)
                               EXCEPT !.isCompleted = f[k][5]]]
            /\ walks = <<>>
            /\ userWalks = <<>>
            /\ petTasks = [p \in Pets |->
                              SelectSeq([k \in 1..n |-> k], LAMBDA k : f[k][1] = p)]
            /\ chain = [k \in 1..n |-> Start(f[k][3])]
            /\ last = Called("init", NoRef)
            /\ calls = NoCalls(FALSE)
            /\ pass = NoPass
            /\ pets = MainPets

\* What a query leaves alone: it returns a value and assigns nothing.
stores == <<tasks, walks, userWalks, petTasks, chain, calls, pass, pets>>

SortTasksByTime ==
    /\ last' = Called("sortTasksByTime", sortTasksByTimeCall(AllTasks).ret)
    /\ UNCHANGED stores

SortTasksByPriority ==
    /\ last' = Called("sortTasksByPriority", sortTasksByPriorityCall(AllTasks).ret)
    /\ UNCHANGED stores

GetOrganizedTodaysTasks ==
    \E clock \in ClockReads(Len(tasks)) :
        /\ last' = Called("getOrganizedTodaysTasks",
                          [clock |-> clock,
                           organized |-> getOrganizedTodaysTasks(clock)])
        /\ UNCHANGED stores

GetTasksByPetName ==
    \E name \in QueryNames :
        /\ last' = Called("getTasksByPetName",
                          [name |-> name, tasks |-> getTasksByPetName(name)])
        /\ UNCHANGED stores

\* getTasksByPetName asked for any of NameQueries.
GetTasksByPetNameOfAnyScript ==
    \E name \in NameQueries :
        /\ last' = Called("getTasksByPetName",
                          [name |-> name, tasks |-> getTasksByPetName(name)])
        /\ UNCHANGED stores

\* The name filter on the tasks of pets with names in several scripts.
NameNext ==
    \/ GetTasksByPetNameOfAnyScript

GetTasksByStatus ==
    \E completed \in BOOLEAN :
        /\ last' = Called("getTasksByStatus",
                          [completed |-> completed, tasks |-> getTasksByStatus(completed)])
        /\ UNCHANGED stores

GetPendingTasks ==
    /\ last' = Called("getPendingTasks", getPendingTasks)
    /\ UNCHANGED stores

\* scheduler.getCompletedTasks() (tests 599): the lookup of the attribute
\* comes first, and nothing is called when it fails.
GetCompletedTasks ==
    /\ last' = Called("getCompletedTasks", SchedulerAttribute("getCompletedTasks"))
    /\ UNCHANGED stores

HasConflict ==
    \E r \in WalkRequests :
        /\ last' = Called("hasConflict", hasConflict(r[1], r[2], r[3]))
        /\ UNCHANGED stores

CheckAllConflicts ==
    /\ last' = Called("checkAllConflicts", checkAllConflicts)
    /\ UNCHANGED stores

GetTasksByPet ==
    \E pet \in Pets :
        /\ last' = Called("getTasksByPet", getTasksByPet(pet))
        /\ UNCHANGED stores

GetTasksByPriority ==
    \E priority \in {"high", "medium"} :
        /\ last' = Called("getTasksByPriority", getTasksByPriority(priority))
        /\ UNCHANGED stores

QueryNext ==
    \/ SortTasksByTime
    \/ SortTasksByPriority
    \/ GetOrganizedTodaysTasks
    \/ GetTasksByPetName
    \/ GetTasksByStatus
    \/ GetPendingTasks
    \/ GetCompletedTasks

\* Walks being scheduled and completed, and every read-only operation.
FrameNext ==
    \/ ScheduleWalk
    \/ MarkComplete
    \/ HasConflict
    \/ CheckAllConflicts
    \/ GetTasksByPet
    \/ GetTasksByPriority
    \/ GetTasksByPetName
    \/ GetTasksByStatus
    \/ GetPendingTasks
    \/ SortTasksByTime
    \/ SortTasksByPriority
    \/ GetOrganizedTodaysTasks

\* Two callers, each about to call scheduleWalk once, with or without a
\* mutual-exclusion region around the call.
RaceInit ==
    /\ tasks = <<>>
    /\ walks = <<>>
    /\ userWalks = <<>>
    /\ petTasks = [p \in Pets |-> <<>>]
    /\ chain = <<>>
    /\ last = Called("init", NoRef)
    /\ \E mutex \in BOOLEAN : calls = NoCalls(mutex)
    /\ pass = NoPass
    /\ pets = MainPets

\* Caller c enters scheduleWalk and runs its conflict check (lines 127-131):
\* on a conflict the call returns None, otherwise it goes on to line 133.
\* With the region in use no call starts while another is inside.
ScheduleWalkCheck(c) ==
    /\ calls.of[c].pc = "idle"
    /\ calls.mutex => \A d \in Callers : calls.of[d].pc \in {"idle", "done"}
    /\ \E r \in WalkRequests :
          IF hasConflict(r[1], r[2], r[3])[1]
          THEN /\ calls' = [calls EXCEPT !.of[c] = [Idle EXCEPT !.pc = "done", !.req = r]]
               /\ last' = Called("scheduleWalk", NoRef)
          ELSE /\ calls' = [calls EXCEPT !.of[c] = [Idle EXCEPT !.pc = "checked", !.req = r]]
               /\ last' = last
    /\ UNCHANGED <<tasks, walks, userWalks, petTasks, chain, pass, pets>>

\* Caller c builds its Walk (lines 133-138): len(self.user.walks) is read
\* now, and the new object is not in User.walks yet.
ScheduleWalkBuildWalk(c) ==
    /\ calls.of[c].pc = "checked"
    /\ LET r == calls.of[c].req
       IN  /\ walks' = Append(walks, scheduleWalkNewWalk(r[1], r[2], r[3]))
           /\ calls' = [calls EXCEPT !.of[c].pc = "walk_built",
                                     !.of[c].walk = Len(walks) + 1]
    /\ UNCHANGED <<tasks, userWalks, petTasks, chain, last, pass, pets>>

\* Caller c builds its Task (lines 139-147): len(self.user.tasks) is read
\* now, and the new object is in no list yet.
ScheduleWalkBuildTask(c) ==
    /\ calls.of[c].pc = "walk_built"
    /\ LET r == calls.of[c].req
       IN  calls' = [calls EXCEPT
                       !.of[c].pc = "task_built",
                       !.of[c].task = <<scheduleWalkNewTask(r[1], r[2], calls.of[c].walk)>>]
    /\ UNCHANGED <<tasks, walks, userWalks, petTasks, chain, last, pass, pets>>

\* self.user.walks.append(walk) (line 148).
ScheduleWalkAppendWalk(c) ==
    /\ calls.of[c].pc = "task_built"
    /\ userWalks' = Append(userWalks, calls.of[c].walk)
    /\ calls' = [calls EXCEPT !.of[c].pc = "walk_appended"]
    /\ UNCHANGED <<tasks, walks, petTasks, chain, last, pass, pets>>

\* self.user.tasks.append(task) (line 149).
ScheduleWalkAppendTask(c) ==
    /\ calls.of[c].pc = "walk_appended"
    /\ tasks' = Append(tasks, calls.of[c].task[1])
    /\ chain' = Rechain(Append(tasks, calls.of[c].task[1]), NoLinks)
    /\ calls' = [calls EXCEPT !.of[c].pc = "task_appended",
                              !.of[c].at = Len(tasks) + 1]
    /\ UNCHANGED <<walks, userWalks, petTasks, last, pass, pets>>

\* pet.tasks.append(task) (line 150).
ScheduleWalkAppendPetTask(c) ==
    /\ calls.of[c].pc = "task_appended"
    /\ petTasks' = [petTasks EXCEPT ![calls.of[c].req[1]] = Append(@, calls.of[c].at)]
    /\ calls' = [calls EXCEPT !.of[c].pc = "pet_appended"]
    /\ UNCHANGED <<tasks, walks, userWalks, chain, last, pass, pets>>

\* The call prints its message and returns the walk (lines 152-153).
ScheduleWalkReturn(c) ==
    /\ calls.of[c].pc = "pet_appended"
    /\ calls' = [calls EXCEPT !.of[c].pc = "done", !.of[c].ret = calls.of[c].walk]
    /\ last' = Called("scheduleWalk", calls.of[c].walk)
    /\ UNCHANGED <<tasks, walks, userWalks, petTasks, chain, pass, pets>>

\* Two threads inside scheduleWalk: either runs its next piece.
RaceNext ==
    \/ \E c \in Callers : ScheduleWalkCheck(c)
    \/ \E c \in Callers : ScheduleWalkBuildWalk(c)
    \/ \E c \in Callers : ScheduleWalkBuildTask(c)
    \/ \E c \in Callers : ScheduleWalkAppendWalk(c)
    \/ \E c \in Callers : ScheduleWalkAppendTask(c)
    \/ \E c \in Callers : ScheduleWalkAppendPetTask(c)
    \/ \E c \in Callers : ScheduleWalkReturn(c)

\* What the Add Pet form is submitted with (app.py 51-53): name and breed,
\* either of which may be left empty, and an age.
AddPetForms ==
    {<<name, breed, 3>> : name \in {"", "Rex", "Buddy"}, breed \in {"", "Labrador"}}

PetAddedMessage == "added successfully"
FillInAllFieldsMessage == "Please fill in all fields."

\* The Add Pet page after its form is submitted (app.py 55-67): with a name
\* and a breed the pet is added and gets an empty task list, otherwise the
\* page shows an error and adds nothing.
AddPetPage ==
    \E form \in AddPetForms :
        /\ IF form[1] # "" /\ form[2] # ""
           THEN /\ Len(pets) < MaxPets
                /\ pets' = addPet(pets, Pet(PetIdOf(Len(pets) + 1), form[1], form[2],
                                            form[3]))
                /\ petTasks' = [p \in DOMAIN petTasks \cup {form[1]} |->
                                   IF p \in DOMAIN petTasks THEN petTasks[p] ELSE <<>>]
                /\ last' = Called("AddPetPage", [shown |-> PetAddedMessage])
           ELSE /\ pets' = pets
                /\ petTasks' = petTasks
                /\ last' = Called("AddPetPage", [shown |-> FillInAllFieldsMessage])
        /\ UNCHANGED <<tasks, walks, userWalks, chain, calls, pass>>

\* The message st.success shows after the Schedule Walk button.
WalkScheduledMessage == "Walk scheduled"

\* The times and durations the Schedule Walk page is given (app.py 79-81):
\* the duration input takes 5 to 120 minutes.
AppWalkTimes == {0, 15}
AppDurations == {30}

\* The Schedule Walk page after its button is pressed (app.py 73-86): with
\* no pets the page has no form; otherwise the pet is the first of User.pets
\* with the selected name, and the page shows its message after the call.
ScheduleWalkPage ==
    /\ pets # <<>>
    /\ \E n \in 1..Len(pets), time \in AppWalkTimes, duration \in AppDurations :
        LET pet_name == pets[n].name
            out == scheduleWalk(pet_name, time, duration)
        IN  /\ Len(out.tasks) <= MaxTasks
            /\ tasks' = out.tasks
            /\ walks' = out.walks
            /\ userWalks' = out.userWalks
            /\ petTasks' = out.petTasks
            /\ chain' = Rechain(out.tasks, NoLinks)
            /\ last' = Called("ScheduleWalkPage",
                              [walk |-> out.ret, shown |-> WalkScheduledMessage])
            /\ calls' = calls
            /\ pass' = pass
            /\ pets' = pets

\* The tasks the Today's Tasks page lists (app.py 92-99): those of every
\* group of getOrganizedTodaysTasks.
ListedToday(clock) ==
    LET organized == getOrganizedTodaysTasks(clock)
    IN  UNION {{organized[g].tasks[k] : k \in 1..Len(organized[g].tasks)} :
                  g \in 1..Len(organized)}

\* The Done checkbox of a listed task is ticked (app.py 104-114): the
\* handler runs completeTask when the task is not completed yet.
TodaysTasksCheckbox ==
    \E clock \in ClockReads(Len(tasks)) :
        \E i \in ListedToday(clock) :
            LET out == completeTask(i)
            IN  /\ ~tasks[i].isCompleted
                /\ Len(out.tasks) <= MaxTasks
                /\ tasks' = out.tasks
                /\ walks' = out.walks
                /\ userWalks' = out.userWalks
                /\ petTasks' = out.petTasks
                /\ chain' = Rechain(out.tasks, (Len(tasks) + 1) :> i)
                /\ last' = Called("TodaysTasksCheckbox", out.ret)
                /\ calls' = calls
                /\ pass' = pass
                /\ pets' = pets

\* The pages of the app that change the schedule.
AppNext ==
    \/ AddPetPage
    \/ ScheduleWalkPage
    \/ TodaysTasksCheckbox

\* The position of x in a list that holds it once.
\* The session the app starts (app.py 11-17): a user without pets, tasks
\* or walks.
AppInit ==
    /\ tasks = <<>>
    /\ walks = <<>>
    /\ userWalks = <<>>
    /\ petTasks = [p \in {} |-> <<>>]
    /\ chain = <<>>
    /\ last = Called("init", NoRef)
    /\ calls = NoCalls(FALSE)
    /\ pass = NoPass
    /\ pets = <<>>

IndexIn(list, x) == CHOOSE q \in 1..Len(list) : list[q] = x

\* A user whose tasks a caller built from MissedTasks and appended, each to
\* User.tasks and to its pet's list, a walk going with its task.
PassInit ==
    \E n \in 0..MaxQueryLen :
        \E f \in [1..n -> MissedTasks] :
            LET walked == SelectSeq([k \in 1..n |-> k], LAMBDA k : f[k][6] # Nothing)
            IN  /\ tasks = [k \in 1..n |->
                               [Task(TaskIdOf(k), f[k][1], f[k][3], "medium",
                                     IF f[k][6] # Nothing THEN IndexIn(walked, k)
                                     ELSE NoRef,
                                     UserId, f[k][2], f[k][4])
                                   EXCEPT !.isCompleted = f[k][5]]]
                /\ walks = [q \in 1..Len(walked) |->
                               Walk("walk_conflict", f[walked[q]][2], f[walked[q]][3],
                                    f[walked[q]][6][1])]
                /\ userWalks = <<>>
                /\ petTasks = [p \in Pets |->
                                  SelectSeq([k \in 1..n |-> k], LAMBDA k : f[k][2] = p)]
                /\ chain = [k \in 1..n |-> Start(f[k][3])]
                /\ last = Called("init", NoRef)
                /\ calls = NoCalls(FALSE)
                /\ pass = NoPass
                /\ pets = MainPets

\* rescheduleMissedTasks is called and reads the clock (line 397); the for
\* loop starts at the first task.
RescheduleBegin ==
    /\ pass.pc = "idle"
    /\ \E now \in NowChoices :
          pass' = [pc |-> "running", i |-> 1, now |-> now, start |-> Len(tasks)]
    /\ UNCHANGED <<tasks, walks, userWalks, petTasks, chain, last, calls, pets>>

\* One iteration of the for loop (lines 398-418): the list iterator yields
\* the task at its position as long as the position is inside the list as
\* it is now, the body runs on it, and the position moves on.
RescheduleVisit ==
    /\ pass.pc = "running"
    /\ pass.i <= Len(tasks)
    /\ LET r == RescheduleTask(pass.i, tasks, walks, pass.now)
       IN  /\ tasks' = r.tasks
           /\ walks' = r.walks
           /\ chain' = Rechain(r.tasks, NoLinks)
    /\ pass' = [pass EXCEPT !.i = @ + 1]
    /\ UNCHANGED <<userWalks, petTasks, last, calls, pets>>

\* The iterator is past the end of the list: the loop ends and the call
\* returns None.
RescheduleReturn ==
    /\ pass.pc = "running"
    /\ pass.i > Len(tasks)
    /\ pass' = [pass EXCEPT !.pc = "done"]
    /\ last' = Called("rescheduleMissedTasks", NoRef)
    /\ UNCHANGED <<tasks, walks, userWalks, petTasks, chain, calls, pets>>

PassNext ==
    \/ RescheduleBegin
    \/ RescheduleVisit
    \/ RescheduleReturn

\* Walk.cancelWalk called on a walk by the caller.
CancelWalk ==
    \E w \in 1..Len(walks) :
        /\ walks' = cancelWalk(walks, w)
        /\ last' = Called("cancelWalk", NoRef)
        /\ UNCHANGED <<tasks, userWalks, petTasks, chain, calls, pass, pets>>

\* The times and durations a caller gives Walk.scheduleWalk.
WalkUpdates == {<<0, 30>>, <<30, 20>>}

\* Walk.scheduleWalk called on a walk by the caller: the walk changes, its
\* task keeps its dueDate.
WalkScheduleWalk ==
    \E w \in 1..Len(walks), u \in WalkUpdates :
        /\ walks' = Walk_scheduleWalk(walks, w, u[1], u[2])
        /\ last' = Called("Walk.scheduleWalk", NoRef)
        /\ UNCHANGED <<tasks, userWalks, petTasks, chain, calls, pass, pets>>

\* Walk.completeWalk called on a walk by the caller: the walk changes, its
\* task keeps its completion flag.
CompleteWalk ==
    \E w \in 1..Len(walks) :
        /\ walks' = completeWalk(walks, w)
        /\ last' = Called("completeWalk", NoRef)
        /\ UNCHANGED <<tasks, userWalks, petTasks, chain, calls, pass, pets>>

\* Scheduler.scheduleWalk while the walks stay within MaxWalks; a refused
\* call adds none.
ScheduleWalkCapped ==
    \E r \in WalkRequests :
        LET out == scheduleWalk(r[1], r[2], r[3])
        IN  /\ Len(out.walks) <= MaxWalks
            /\ Len(out.tasks) <= MaxTasks
            /\ Commit("scheduleWalk", out, NoLinks)

\* Walks being scheduled by the scheduler, changed through their own
\* methods by the caller, and completed with their tasks.
CancelNext ==
    \/ ScheduleWalkCapped
    \/ WalkScheduleWalk
    \/ CancelWalk
    \/ CompleteWalk
    \/ CompleteTask

SchedulerNext ==
    \/ ScheduleWalk
    \/ CompleteTask
    \/ CreateRecurringTask
    \/ RescheduleMissedTasks

Next ==
    \/ ScheduleWalk
    \/ CompleteTask
    \/ CreateRecurringTask
    \/ RescheduleMissedTasks
    \/ MarkComplete
    \/ AppendTask

\* Every operation, callers' direct appends and markComplete calls included.
Spec == Init /\ [][Next]_vars

\* The Scheduler's operations only, from a user with no tasks.
SchedulerSpec == Init /\ [][SchedulerNext]_vars

\* getTasksByPetName on the tasks of pets named in several scripts.
NameSpec == NameInit /\ [][NameNext]_vars

\* The sorting and grouping queries, on any list of tasks.
QuerySpec == QueryInit /\ [][QueryNext]_vars

\* The read-only operations between scheduleWalk and markComplete calls.
FrameSpec == Init /\ [][FrameNext]_vars

\* Two scheduleWalk calls whose steps may interleave.
RaceSpec == RaceInit /\ [][RaceNext]_vars

\* The app: a session that starts with no pets and no tasks (app.py 11-17).
AppSpec == AppInit /\ [][AppNext]_vars

\* One rescheduleMissedTasks call, followed iteration by iteration.
PassSpec == PassInit /\ [][PassNext]_vars

\* The same call on a single thread: a loop iteration that can run does run,
\* and so does the return.
PassLiveSpec ==
    PassSpec /\ WF_vars(RescheduleVisit) /\ WF_vars(RescheduleReturn)

\* Walks scheduled by scheduleWalk, rescheduled, cancelled or completed
\* through their own methods by the caller, and completed with their tasks.
CancelSpec == Init /\ [][CancelNext]_vars

\* Walks scheduled with any duration, and their completion.
AnyDurationSpec == Init /\ [][AnyDurationNext]_vars

\* ------------------------------------------------------------------ claims
ActiveWalk(i) == ~tasks[i].isCompleted /\ tasks[i].walk # NoRef

\* The minutes of the half-open window [dueDate, dueDate + walk.duration).
Window(i) == tasks[i].dueDate .. (tasks[i].dueDate + walks[tasks[i].walk].duration - 1)

\* C1: under the Scheduler's operations no two uncompleted walk-bearing tasks
\* of the same pet have windows that share a minute (windows that only touch
\* share none), and checkAllConflicts() reports nothing.
C1_NoOverlap ==
    /\ \A i, j \in 1..Len(tasks) :
          (i < j /\ tasks[i].pet = tasks[j].pet /\ ActiveWalk(i) /\ ActiveWalk(j))
              => Window(i) \cap Window(j) = {}
    /\ checkAllConflicts = <<>>

\* 08:00/30 and 08:30/20 are both committed for Buddy, the second by the call
\* that ran last, and 08:15/30 is refused.
C1_Witness ==
    /\ last.op = "scheduleWalk" /\ last.ret # NoRef
    /\ \E i, j \in 1..Len(tasks) :
          /\ i < j /\ tasks[i].pet = "Buddy" /\ tasks[j].pet = "Buddy"
          /\ ActiveWalk(i) /\ ActiveWalk(j)
          /\ tasks[i].dueDate = 0 /\ walks[tasks[i].walk].duration = 30
          /\ tasks[j].dueDate = 30 /\ walks[tasks[j].walk].duration = 20
    /\ scheduleWalk("Buddy", 15, 30).ret = NoRef
    /\ checkAllConflicts = <<>>

\* Probe windows for the detector: 07:50 to 09:00, the walk lengths in use.
ProbeStarts == {-10, 0, 15, 20, 30, 60}
ProbeDurations == {20, 30}
\* Shifts shorter than every walk: a shifted window still overlaps.
OverlapShifts == {1, 10, 19}

\* The uncompleted walk-bearing tasks in pet.tasks.
ActiveWalksOf(pet) ==
    {petTasks[pet][k] : k \in {n \in 1..Len(petTasks[pet]) : ActiveWalk(petTasks[pet][n])}}

\* C2: hasConflict(pet, s, d) reports a conflict iff some uncompleted
\* walk-bearing task t of pet.tasks has s < t.dueDate + t.walk.duration and
\* s + d > t.dueDate; so a window identical to an active walk's and one
\* shifted either way by less than its length conflict, a back-to-back
\* window before or after the pet's only active walk does not, and a pet
\* without an active walk never conflicts whatever the other pets hold.
C2_HasConflictIff ==
    /\ \A pet \in Pets, s \in ProbeStarts, d \in ProbeDurations :
          hasConflict(pet, s, d)[1] <=>
              \E k \in 1..Len(petTasks[pet]) :
                  LET t == tasks[petTasks[pet][k]]
                  IN  /\ ~t.isCompleted
                      /\ t.walk # NoRef
                      /\ s < t.dueDate + walks[t.walk].duration
                      /\ s + d > t.dueDate
    /\ \A pet \in Pets :
          \A i \in ActiveWalksOf(pet) :
              LET S == tasks[i].dueDate
                  D == walks[tasks[i].walk].duration
              IN  /\ hasConflict(pet, S, D)[1]
                  /\ \A m \in OverlapShifts :
                        hasConflict(pet, S + m, D)[1] /\ hasConflict(pet, S - m, D)[1]
                  /\ ActiveWalksOf(pet) = {i} =>
                        \A d \in ProbeDurations :
                            /\ ~hasConflict(pet, S + D, d)[1]
                            /\ ~hasConflict(pet, S - d, d)[1]
    /\ \A pet \in Pets :
          ActiveWalksOf(pet) = {} =>
              \A s \in ProbeStarts, d \in ProbeDurations : ~hasConflict(pet, s, d)[1]

\* Buddy has one active walk at 08:00/30 and a completed one, Whiskers none:
\* 08:00/30 conflicts for Buddy, 08:30/30 does not, nothing does for Whiskers.
C2_Witness ==
    /\ \E i \in 1..Len(tasks) :
          /\ ActiveWalksOf("Buddy") = {i}
          /\ tasks[i].dueDate = 0 /\ walks[tasks[i].walk].duration = 30
    /\ \E j \in 1..Len(tasks) :
          tasks[j].pet = "Buddy" /\ tasks[j].isCompleted /\ tasks[j].walk # NoRef
    /\ ActiveWalksOf("Whiskers") = {}
    /\ hasConflict("Buddy", 0, 30)[1]
    /\ ~hasConflict("Buddy", 30, 30)[1]
    /\ ~hasConflict("Whiskers", 0, 30)[1]

\* C3: when hasConflict reports a conflict for a request, scheduleWalk
\* returns None and leaves User.tasks, User.walks, every pet's task list and
\* every task and walk as they were.
C3_RejectedCreatesNothing ==
    \A r \in WalkRequests :
        hasConflict(r[1], r[2], r[3])[1] =>
            LET out == scheduleWalk(r[1], r[2], r[3])
            IN  /\ out.ret = NoRef
                /\ out.tasks = tasks
                /\ out.walks = walks
                /\ out.userWalks = userWalks
                /\ out.petTasks = petTasks

\* A scheduleWalk call has just been refused.
C3_Witness ==
    /\ last.op = "scheduleWalk" /\ last.ret = NoRef
    /\ \E r \in WalkRequests : hasConflict(r[1], r[2], r[3])[1]

\* C4: when hasConflict reports no conflict, scheduleWalk returns a new
\* 'scheduled' walk with the given time and duration, appends it (alone) to
\* User.walks, and appends one new task (high, 'Walk <name>', due at the
\* time, uncompleted, holding the walk, no recurrence) to User.tasks and to
\* pet.tasks; nothing else changes.
C4_AcceptedCreatesWalkAndTask ==
    \A r \in WalkRequests :
        ~hasConflict(r[1], r[2], r[3])[1] =>
            LET out == scheduleWalk(r[1], r[2], r[3])
                n == Len(tasks) + 1
            IN  /\ out.ret # NoRef
                /\ Len(out.walks) = Len(walks) + 1
                /\ SubSeq(out.walks, 1, Len(walks)) = walks
                /\ out.walks[out.ret].status = "scheduled"
                /\ out.walks[out.ret].scheduledTime = r[2]
                /\ out.walks[out.ret].duration = r[3]
                /\ out.walks[out.ret].pet = r[1]
                /\ out.userWalks = Append(userWalks, out.ret)
                /\ Len(out.tasks) = n
                /\ SubSeq(out.tasks, 1, Len(tasks)) = tasks
                /\ out.tasks[n].priority = "high"
                /\ out.tasks[n].description = "Walk " \o r[1]
                /\ out.tasks[n].dueDate = r[2]
                /\ out.tasks[n].isCompleted = FALSE
                /\ out.tasks[n].walk = out.ret
                /\ out.tasks[n].recurrence = None
                /\ out.tasks[n].pet = r[1]
                /\ out.petTasks[r[1]] = Append(petTasks[r[1]], n)
                /\ \A q \in Pets \ {r[1]} : out.petTasks[q] = petTasks[q]

\* A scheduleWalk call has just been accepted next to earlier tasks.
C4_Witness ==
    /\ last.op = "scheduleWalk" /\ last.ret # NoRef
    /\ Len(tasks) > 1
    /\ tasks[Len(tasks)].walk = last.ret

\* The tasks that recur: completing one yields a successor.
Recurring(i) == tasks[i].recurrence \in {"daily", "weekly"}

\* One period in minutes: 1 day for 'daily', 7 days for 'weekly'.
Period(recurrence) == IF recurrence = "daily" THEN 24 * 60 ELSE 7 * 24 * 60

\* C5: completing a daily or weekly task yields a successor due exactly one
\* period later, and a task reached from a chain's start T by N completions
\* is due at T + N periods.
C5_RecurrenceChain ==
    /\ \A i \in 1..Len(tasks) :
          Recurring(i) =>
              LET out == completeTask(i)
              IN  /\ out.ret # NoRef
                  /\ out.tasks[out.ret].dueDate
                        = tasks[i].dueDate + Period(tasks[i].recurrence)
    /\ \A k \in 1..Len(tasks) :
          Recurring(k) =>
              tasks[k].dueDate
                  = chain[k].origin + chain[k].gen * Period(tasks[k].recurrence)

\* A daily task two completions away from a task createRecurringTask made,
\* or a weekly task one completion away.
C5_Witness ==
    /\ last.op = "completeTask" /\ last.ret # NoRef
    /\ \/ /\ tasks[last.ret].recurrence = "daily"
          /\ chain[last.ret].gen = 2
          /\ tasks[last.ret].dueDate = chain[last.ret].origin + 2 * 24 * 60
       \/ /\ tasks[last.ret].recurrence = "weekly"
          /\ chain[last.ret].gen = 1
          /\ tasks[last.ret].dueDate = chain[last.ret].origin + 7 * 24 * 60

\* C6: completeTask on a daily or weekly task marks it complete and creates
\* exactly one task: User.tasks grows by one, the new task is appended to
\* the completed task's pet's list, and it is the return value.
C6_CompleteRecurringCreatesOne ==
    \A i \in 1..Len(tasks) :
        Recurring(i) =>
            LET out == completeTask(i)
                n == Len(tasks) + 1
            IN  /\ out.tasks[i].isCompleted
                /\ Len(out.tasks) = n
                /\ \A k \in 1..Len(tasks) :
                      out.tasks[k] = [tasks[k] EXCEPT !.isCompleted = (k = i) \/ @]
                /\ out.ret = n
                /\ tasks[i].pet # None =>
                      /\ out.petTasks[tasks[i].pet] = Append(petTasks[tasks[i].pet], n)
                      /\ \A q \in Pets \ {tasks[i].pet} : out.petTasks[q] = petTasks[q]

\* completeTask has just expanded a recurring task of a pet.
C6_Witness ==
    /\ last.op = "completeTask" /\ last.ret = Len(tasks)
    /\ Len(tasks) > 1
    /\ \E i \in 1..(Len(tasks) - 1) :
          /\ Recurring(i) /\ tasks[i].isCompleted
          /\ petTasks[tasks[i].pet][Len(petTasks[tasks[i].pet])] = Len(tasks)

\* C7: the task completeTask's expansion produces has the completed task's
\* description, priority, pet, user and recurrence, is uncompleted, has no
\* walk, and has a taskId no task already in User.tasks has.
C7_ExpansionPreservesAndFresh ==
    \A i \in 1..Len(tasks) :
        Recurring(i) =>
            LET out == completeTask(i)
                new == out.tasks[out.ret]
            IN  /\ new.description = tasks[i].description
                /\ new.priority = tasks[i].priority
                /\ new.pet = tasks[i].pet
                /\ new.user = tasks[i].user
                /\ new.recurrence = tasks[i].recurrence
                /\ new.isCompleted = FALSE
                /\ new.walk = NoRef
                /\ \A k \in 1..Len(tasks) : tasks[k].taskId # new.taskId

\* C8: completeTask on a task with no recurrence returns None, completes the
\* task (and its walk), and changes nothing else: User.tasks has the same
\* length and the other tasks, and every pet's list is as it was.
C8_CompleteOneTimeNoExpansion ==
    \A i \in 1..Len(tasks) :
        tasks[i].recurrence = None =>
            LET out == completeTask(i)
            IN  /\ out.ret = NoRef
                /\ out.tasks = [tasks EXCEPT ![i].isCompleted = TRUE]
                /\ out.petTasks = petTasks
                /\ out.userWalks = userWalks

\* completeTask has just returned None for a one-time task.
C8_Witness ==
    /\ last.op = "completeTask" /\ last.ret = NoRef
    /\ \E i \in 1..Len(tasks) : tasks[i].recurrence = None /\ tasks[i].isCompleted

\* C9: every completed task with a walk has a walk of status 'completed'.
C9_CompletedTaskCompletedWalk ==
    \A i \in 1..Len(tasks) :
        (tasks[i].isCompleted /\ tasks[i].walk # NoRef)
            => walks[tasks[i].walk].status = "completed"

\* The unordered pairs of distinct uncompleted walk-bearing tasks of one
\* pet's list whose windows overlap.
CollidingPairs ==
    UNION {{{x[1], x[2]} :
              x \in {y \in ActiveWalksOf(pet) \X ActiveWalksOf(pet) :
                        /\ y[1] < y[2]
                        /\ tasks[y[1]].dueDate
                              < tasks[y[2]].dueDate + walks[tasks[y[2]].walk].duration
                        /\ tasks[y[2]].dueDate
                              < tasks[y[1]].dueDate + walks[tasks[y[1]].walk].duration}}
           : pet \in Pets}

\* C10: checkAllConflicts() returns exactly one report for each such pair,
\* so none when there is none, and never a pair in both orders.
C10_OneReportPerPair ==
    LET reports == checkAllConflicts
    IN  /\ \A k \in 1..Len(reports) : {reports[k].task1, reports[k].task2} \in CollidingPairs
        /\ \A pair \in CollidingPairs :
              Cardinality({k \in 1..Len(reports) :
                              {reports[k].task1, reports[k].task2} = pair}) = 1
        /\ Len(reports) = Cardinality(CollidingPairs)

\* Three uncompleted walks of Buddy: one pair collides and is reported once,
\* the other two pairs only touch or are apart.
C10_Witness ==
    /\ Cardinality(ActiveWalksOf("Buddy")) = 3
    /\ Cardinality(CollidingPairs) = 1
    /\ Len(checkAllConflicts) = 1

\* The uncompleted walk-bearing tasks of pet.tasks whose window overlaps
\* [t, t + d).
ActiveOverlapping(pet, t, d) ==
    {k \in ActiveWalksOf(pet) :
        t < tasks[k].dueDate + walks[tasks[k].walk].duration /\ t + d > tasks[k].dueDate}

\* C11: a completed walk frees its slot: for a completed walk-bearing task of
\* a pet, hasConflict on the walk's own window reports exactly the other,
\* uncompleted walks that overlap it (no line for the completed task), and
\* when there is none scheduleWalk on that window commits a new walk.
C11_CompletedWalkFreesSlot ==
    \A i \in 1..Len(tasks) :
        (tasks[i].isCompleted /\ tasks[i].walk # NoRef /\ tasks[i].pet # None) =>
            LET pet == tasks[i].pet
                t == tasks[i].dueDate
                d == walks[tasks[i].walk].duration
                others == ActiveOverlapping(pet, t, d)
                found == hasConflict(pet, t, d)
                out == scheduleWalk(pet, t, d)
            IN  /\ found[1] <=> others # {}
                /\ found[1] => Len(found[2]) = Cardinality(others)
                /\ others = {} =>
                      /\ out.ret # NoRef
                      /\ Len(out.tasks) = Len(tasks) + 1
                      /\ out.walks[out.ret].scheduledTime = t
                      /\ out.walks[out.ret].duration = d
                      /\ out.walks[out.ret].status = "scheduled"

\* scheduleWalk has just committed a walk on the window of an earlier walk of
\* the same pet that scheduleWalk had made and that was completed since.
C11_Witness ==
    /\ last.op = "scheduleWalk" /\ last.ret # NoRef
    /\ \E i \in 1..(Len(tasks) - 1) :
          /\ tasks[i].isCompleted /\ tasks[i].walk # NoRef
          /\ tasks[i].walk \in {userWalks[k] : k \in 1..Len(userWalks)}
          /\ tasks[i].pet = tasks[Len(tasks)].pet
          /\ tasks[i].dueDate = tasks[Len(tasks)].dueDate
          /\ walks[tasks[i].walk].duration = walks[last.ret].duration

\* The tasks rescheduleMissedTasks is about when it starts at `now`:
\* uncompleted, due strictly before now, with a next occurrence.
Missed(now) ==
    {i \in 1..Len(tasks) :
        ~tasks[i].isCompleted /\ tasks[i].dueDate < now /\ Recurring(i)}

\* C12: rescheduleMissedTasks() moves each such task one period ahead and
\* marks it complete, adds for each exactly one uncompleted clone at the new
\* date, leaves the other tasks alone, and so lengthens User.tasks by the
\* number of such tasks, also for a task overdue by more than one period.
C12_RescheduleOneClonePerMissed ==
    \A now \in NowChoices :
        LET out == rescheduleMissedTasks(now)
            new == (Len(tasks) + 1)..Len(out.tasks)
        IN  /\ Len(out.tasks) = Len(tasks) + Cardinality(Missed(now))
            /\ \A i \in 1..Len(tasks) :
                  IF i \in Missed(now)
                  THEN /\ out.tasks[i].isCompleted
                       /\ out.tasks[i].dueDate
                             = tasks[i].dueDate + Period(tasks[i].recurrence)
                       /\ Cardinality({k \in new :
                              /\ out.tasks[k].description = tasks[i].description
                              /\ out.tasks[k].pet = tasks[i].pet
                              /\ out.tasks[k].dueDate = out.tasks[i].dueDate
                              /\ ~out.tasks[k].isCompleted}) = 1
                  ELSE out.tasks[i] = tasks[i]

\* The tasks a pet's list refers to.
PetTaskSet(p) == {petTasks[p][k] : k \in 1..Len(petTasks[p])}

\* C13: under the Scheduler's operations every task of User.tasks that has a
\* pet is in that pet's task list, and every entry of a pet's task list is a
\* task of User.tasks.
C13_TaskListsConsistent ==
    /\ \A i \in 1..Len(tasks) :
          tasks[i].pet # None => i \in PetTaskSet(tasks[i].pet)
    /\ \A p \in Pets : PetTaskSet(p) \subseteq 1..Len(tasks)

\* C14: no two tasks of User.tasks share a taskId and no two walks of
\* User.walks share a walkId, whatever the interleaving of Scheduler
\* operations with tasks a caller appends under ids of its own.
C14_IdsUnique ==
    /\ \A i, j \in 1..Len(tasks) : tasks[i].taskId = tasks[j].taskId => i = j
    /\ \A i, j \in 1..Len(userWalks) :
          walks[userWalks[i]].walkId = walks[userWalks[j]].walkId => i = j

\* C15: every walk scheduleWalk commits has a positive duration: a call with
\* duration <= 0 returns no walk, and every walk of User.walks has
\* duration > 0.
C15_CommittedWalksPositive ==
    /\ (last.op = "scheduleWalk" /\ last.ret # NoRef) => walks[last.ret].duration > 0
    /\ \A k \in 1..Len(userWalks) : walks[userWalks[k]].duration > 0

\* s is an initial segment of t.
IsPrefix(s, t) == Len(s) <= Len(t) /\ SubSeq(t, 1, Len(s)) = s

\* Task k is the same object before and after a step: the fields no
\* operation assigns are as they were.
SameTask(a, b) ==
    /\ a.taskId = b.taskId
    /\ a.description = b.description
    /\ a.priority = b.priority
    /\ a.user = b.user
    /\ a.pet = b.pet
    /\ a.recurrence = b.recurrence
    /\ a.walk = b.walk

\* C16: the stores are append-only: every step leaves User.tasks, User.walks
\* and each pet's task list with their previous elements, in the previous
\* order, as a prefix of the new contents, so no length ever decreases.
C16_AppendOnly ==
    [][/\ Len(tasks') >= Len(tasks)
       /\ \A k \in 1..Len(tasks) : SameTask(tasks[k], tasks'[k])
       /\ Len(walks') >= Len(walks)
       /\ \A k \in 1..Len(walks) :
             walks'[k].walkId = walks[k].walkId /\ walks'[k].pet = walks[k].pet
       /\ IsPrefix(userWalks, userWalks')
       /\ \A p \in Pets : IsPrefix(petTasks[p], petTasks'[p])]_vars

\* completeTask has just appended a successor behind an earlier walk task:
\* all three stores are non-empty and Buddy's list has grown twice.
C16_Witness ==
    /\ last.op = "completeTask" /\ last.ret = Len(tasks)
    /\ Len(userWalks) >= 1
    /\ Len(petTasks["Buddy"]) >= 2
    /\ Len(tasks) = 3

\* C17: createRecurringTask always succeeds, also when start_time lies inside
\* an active walk window of the pet: it returns a new task appended alone to
\* User.tasks and to pet.tasks, due at start_time, with the given
\* description, priority and recurrence, uncompleted and without a walk, and
\* leaves User.walks, every walk and the other pets' lists unchanged.
C17_CreateRecurringAlwaysSucceeds ==
    \A r \in RecurringRequests :
        LET out == createRecurringTask(r[1], r[2], r[3], r[4], r[5])
            n == Len(tasks) + 1
        IN  /\ out.ret = n
            /\ out.tasks = Append(tasks, out.tasks[n])
            /\ out.tasks[n].pet = r[1]
            /\ out.tasks[n].description = r[2]
            /\ out.tasks[n].dueDate = r[3]
            /\ out.tasks[n].priority = r[4]
            /\ out.tasks[n].recurrence = r[5]
            /\ out.tasks[n].isCompleted = FALSE
            /\ out.tasks[n].walk = NoRef
            /\ out.petTasks[r[1]] = Append(petTasks[r[1]], n)
            /\ \A q \in Pets \ {r[1]} : out.petTasks[q] = petTasks[q]
            /\ out.userWalks = userWalks
            /\ out.walks = walks

\* createRecurringTask has just created a task due inside an active walk
\* window of its pet.
C17_Witness ==
    /\ last.op = "createRecurringTask" /\ last.ret = Len(tasks)
    /\ tasks[last.ret].walk = NoRef
    /\ \E k \in ActiveWalksOf(tasks[last.ret].pet) : tasks[last.ret].dueDate \in Window(k)

\* The rank the sort order gives a priority: high 0, medium 1, low 2, any
\* other string 3.
RankOf(priority) ==
    CASE priority = "high" -> 0
      [] priority = "medium" -> 1
      [] priority = "low" -> 2
      [] OTHER -> 3

\* out holds the elements of list, each as often as list does.
IsPermutation(out, list) ==
    /\ Len(out) = Len(list)
    /\ \A k \in 1..Len(list) :
          Cardinality({q \in 1..Len(out) : out[q] = list[k]})
              = Cardinality({q \in 1..Len(list) : list[q] = list[k]})

\* The place of task i in a list that holds it once.
PlaceOf(out, i) == CHOOSE q \in 1..Len(out) : out[q] = i

\* C18: sortTasksByPriority returns a permutation of its input, ascending by
\* (rank, dueDate); tasks equal in both keep their input order; with the same
\* dueDate high comes before medium before low; and a high task comes before
\* a medium task that is due earlier.
C18_SortByPriority ==
    LET out == sortTasksByPriority(AllTasks)
    IN  /\ IsPermutation(out, AllTasks)
        /\ \A a, b \in 1..Len(out) :
              a < b =>
                  LET x == tasks[out[a]]
                      y == tasks[out[b]]
                  IN  /\ \/ RankOf(x.priority) < RankOf(y.priority)
                         \/ /\ RankOf(x.priority) = RankOf(y.priority)
                            /\ x.dueDate <= y.dueDate
                      /\ (RankOf(x.priority) = RankOf(y.priority) /\ x.dueDate = y.dueDate)
                            => out[a] < out[b]
        /\ \A i, j \in 1..Len(tasks) :
              /\ (/\ tasks[i].dueDate = tasks[j].dueDate
                  /\ <<tasks[i].priority, tasks[j].priority>>
                        \in {<<"high", "medium">>, <<"medium", "low">>, <<"high", "low">>})
                    => PlaceOf(out, i) < PlaceOf(out, j)
              /\ (/\ tasks[i].priority = "high" /\ tasks[j].priority = "medium"
                  /\ tasks[j].dueDate < tasks[i].dueDate)
                    => PlaceOf(out, i) < PlaceOf(out, j)

\* sortTasksByPriority has just moved a high task due 14:00 in front of a
\* medium task due 09:00 that preceded it, with a task of unknown priority
\* in the list.
C18_Witness ==
    /\ last.op = "sortTasksByPriority"
    /\ \E i, j \in 1..Len(tasks) :
          /\ i < j
          /\ tasks[i].priority = "medium" /\ tasks[i].dueDate = 60
          /\ tasks[j].priority = "high" /\ tasks[j].dueDate = 360
          /\ PlaceOf(last.ret, j) < PlaceOf(last.ret, i)
    /\ \E k \in 1..Len(tasks) : tasks[k].priority = "urgent"

\* C19: sortTasksByTime returns a permutation of its input in non-decreasing
\* dueDate order, tasks with the same dueDate in their input order; the
\* empty list for the empty list and the task itself for a single task.
C19_SortByTime ==
    LET out == sortTasksByTime(AllTasks)
    IN  /\ IsPermutation(out, AllTasks)
        /\ \A a, b \in 1..Len(out) :
              a < b =>
                  /\ tasks[out[a]].dueDate <= tasks[out[b]].dueDate
                  /\ tasks[out[a]].dueDate = tasks[out[b]].dueDate => out[a] < out[b]
        /\ Len(tasks) = 0 => out = <<>>
        /\ Len(tasks) = 1 => out = <<1>>

\* sortTasksByTime has just reordered three tasks, two of them due at the
\* same time.
C19_Witness ==
    /\ last.op = "sortTasksByTime"
    /\ Len(tasks) = 3
    /\ last.ret # AllTasks
    /\ \E i, j \in 1..Len(tasks) : i < j /\ tasks[i].dueDate = tasks[j].dueDate

\* The key getOrganizedTodaysTasks files task i under.
GroupNameOf(i) == IF tasks[i].pet # None THEN tasks[i].pet ELSE "General"

\* The tasks due on the day of `now` and not completed.
DueToday(now) ==
    {i \in 1..Len(tasks) :
        DateOf(tasks[i].dueDate) = DateOf(now) /\ ~tasks[i].isCompleted}

\* The groups `organized` are what the claim says for the day of `now`:
\* distinct keys, together exactly the uncompleted tasks due that day, each
\* once and under its pet's name ('General' without a pet), each group in
\* the order sortTasksByPriority gives it, ascending by (rank, dueDate).
OrganizedFor(organized, now) ==
    LET G == 1..Len(organized)
    IN  /\ \A g, h \in G : organized[g].name = organized[h].name => g = h
        /\ \A g \in G : \A q \in 1..Len(organized[g].tasks) :
              /\ organized[g].tasks[q] \in DueToday(now)
              /\ GroupNameOf(organized[g].tasks[q]) = organized[g].name
        /\ \A i \in DueToday(now) :
              Cardinality({x \in G \X (1..Len(tasks)) :
                              /\ x[2] <= Len(organized[x[1]].tasks)
                              /\ organized[x[1]].tasks[x[2]] = i}) = 1
        /\ \A g \in G :
              /\ organized[g].tasks
                    = sortTasksByPriority(
                          SelectSeq(AllTasks,
                              LAMBDA i : /\ i \in DueToday(now)
                                         /\ GroupNameOf(i) = organized[g].name))
              /\ \A a, b \in 1..Len(organized[g].tasks) :
                    a < b =>
                        LET x == tasks[organized[g].tasks[a]]
                            y == tasks[organized[g].tasks[b]]
                        IN  \/ RankOf(x.priority) < RankOf(y.priority)
                            \/ /\ RankOf(x.priority) = RankOf(y.priority)
                               /\ x.dueDate <= y.dueDate
              /\ Len(organized[g].tasks) = 2 =>
                    LET x == tasks[organized[g].tasks[1]]
                        y == tasks[organized[g].tasks[2]]
                    IN  ~(/\ x.priority = "medium" /\ x.dueDate = 60
                          /\ y.priority = "high" /\ y.dueDate = 360)

\* C20: the groups getOrganizedTodaysTasks() returns have distinct keys and
\* hold together exactly the uncompleted tasks due today, each once and
\* under its pet's name ('General' without a pet), each group in the order
\* sortTasksByPriority gives it; today being the day of a moment of the call.
C20_OrganizedTodaysTasks ==
    (last.op = "getOrganizedTodaysTasks" /\ Len(tasks) > 0) =>
        \E k \in 1..Len(tasks) :
            OrganizedFor(last.ret.organized, last.ret.clock[k])

\* Case folding of the letters the names in use are written in, <<letter,
\* folded>>: a capital folds to its small letter, the sharp s (223) to ss,
\* the capital sigma (931) and the final small sigma (962) to the small sigma
\* (963); every other character folds to itself.
CaseFolding ==
    {<<66, <<98>>>>, <<68, <<100>>>>, <<69, <<101>>>>, <<73, <<105>>>>,
     <<76, <<108>>>>, <<77, <<109>>>>, <<82, <<114>>>>, <<83, <<115>>>>,
     <<85, <<117>>>>, <<87, <<119>>>>, <<89, <<121>>>>,
     <<201, <<233>>>>, <<223, <<115, 115>>>>,
     <<921, <<953>>>>, <<922, <<954>>>>, <<925, <<957>>>>, <<927, <<959>>>>,
     <<931, <<963>>>>, <<962, <<963>>>>}

\* A name with every letter folded, from place k on.
RECURSIVE FoldFrom(_, _)
FoldFrom(name, k) ==
    IF k > Len(name) THEN <<>>
    ELSE (IF \E e \in CaseFolding : e[1] = name[k]
          THEN (CHOOSE e \in CaseFolding : e[1] = name[k])[2]
          ELSE <<name[k]>>) \o FoldFrom(name, k + 1)

\* Two names are the same ignoring letter case: they are equal once every
\* letter is folded (Unicode's caseless matching).
SameIgnoringCase(a, b) == FoldFrom(a, 1) = FoldFrom(b, 1)

\* C21: getTasksByPetName(name) returns, in User.tasks order, exactly the
\* tasks whose pet's name is name ignoring letter case; names that differ
\* only in case give the same result; tasks of other pets and tasks without
\* a pet are left out; a name no pet has gives the empty list.
C21_FilterByPetName ==
    last.op = "getTasksByPetName" =>
        LET name == last.ret.name
            out == last.ret.tasks
        IN  /\ out = SelectSeq(AllTasks,
                         LAMBDA i : /\ tasks[i].pet # None
                                    /\ SameIgnoringCase(PetName[tasks[i].pet], name))
            /\ (\A p \in DOMAIN petTasks : ~SameIgnoringCase(PetName[p], name))
                  => out = <<>>
            /\ \A other \in NameQueries :
                  SameIgnoringCase(name, other) => getTasksByPetName(other) = out

\* C22: Scheduler has a method getCompletedTasks, and a call of it returns
\* exactly the completed tasks of User.tasks, in User.tasks order.
C22_GetCompletedTasks ==
    last.op = "getCompletedTasks" =>
        /\ SchedulerAttribute("getCompletedTasks") = "getCompletedTasks"
        /\ last.ret = SelectSeq(AllTasks, LAMBDA i : tasks[i].isCompleted)

\* The tasks a list of task references holds.
Members(list) == {list[k] : k \in 1..Len(list)}

\* list holds each of its tasks once, in User.tasks order.
InTaskOrder(list) == \A a, b \in 1..Len(list) : a < b => list[a] < list[b]

\* C23: getPendingTasks() is exactly the uncompleted tasks and equals
\* getTasksByStatus(false); getTasksByStatus(true) is exactly the completed
\* tasks; each in User.tasks order; the two are disjoint and together hold
\* every task of User.tasks.
C23_CompletionPartition ==
    LET pending == getPendingTasks
        open == getTasksByStatus(FALSE)
        done == getTasksByStatus(TRUE)
    IN  /\ Members(pending) = {i \in 1..Len(tasks) : ~tasks[i].isCompleted}
        /\ InTaskOrder(pending)
        /\ pending = open
        /\ Members(done) = {i \in 1..Len(tasks) : tasks[i].isCompleted}
        /\ InTaskOrder(done)
        /\ Members(open) \cap Members(done) = {}
        /\ Members(open) \cup Members(done) = 1..Len(tasks)
        /\ last.op = "getPendingTasks" => last.ret = pending
        /\ last.op = "getTasksByStatus" =>
              last.ret.tasks = IF last.ret.completed THEN done ELSE open

\* getTasksByStatus(true) has just returned the completed tasks of a list
\* that holds completed and uncompleted tasks.
C23_Witness ==
    /\ last.op = "getTasksByStatus" /\ last.ret.completed
    /\ last.ret.tasks # <<>>
    /\ getPendingTasks # <<>>
    /\ Len(tasks) = 3

\* The operations that only read.
ReadOnlyOps ==
    {"hasConflict", "checkAllConflicts", "getTasksByPet", "getTasksByPriority",
     "getTasksByPetName", "getTasksByStatus", "getPendingTasks",
     "sortTasksByTime", "sortTasksByPriority", "getOrganizedTodaysTasks"}

\* C24: a step of hasConflict, checkAllConflicts or a query, filter or sort
\* operation leaves User.tasks, User.walks, every pet's task list and every
\* field of every task and walk as they were, and a sort leaves the list
\* passed to it as it was.
C24_ReadOnlyOperations ==
    [][/\ last'.op \in ReadOnlyOps =>
             /\ tasks' = tasks
             /\ walks' = walks
             /\ userWalks' = userWalks
             /\ petTasks' = petTasks
       /\ sortTasksByTimeCall(AllTasks).arg = AllTasks
       /\ sortTasksByPriorityCall(AllTasks).arg = AllTasks]_vars

\* sortTasksByTime has just returned another order than User.tasks has,
\* on a user with walks and a completed task.
C24_Witness ==
    /\ last.op = "sortTasksByTime"
    /\ last.ret # AllTasks
    /\ userWalks # <<>>
    /\ \E i \in 1..Len(tasks) : tasks[i].isCompleted

\* The tasks of User.tasks that hold walk w.
HoldersOf(w) == {i \in 1..Len(tasks) : tasks[i].walk = w}

\* C25: under the Scheduler's operations every walk of User.walks is held
\* by exactly one task of User.tasks and is listed once, every walk a task
\* holds is in User.walks, and User.walks is as long as there are
\* walk-bearing tasks.
C25_WalkOwnership ==
    /\ \A k \in 1..Len(userWalks) : Cardinality(HoldersOf(userWalks[k])) = 1
    /\ \A j, k \in 1..Len(userWalks) : userWalks[j] = userWalks[k] => j = k
    /\ \A i \in 1..Len(tasks) :
          tasks[i].walk # NoRef => tasks[i].walk \in Members(userWalks)
    /\ Len(userWalks) = Cardinality({i \in 1..Len(tasks) : tasks[i].walk # NoRef})

\* scheduleWalk has just put a second walk into User.walks, next to a task
\* that has no walk.
C25_Witness ==
    /\ Len(userWalks) = 2
    /\ last.op = "scheduleWalk" /\ last.ret = userWalks[2]
    /\ \E i \in 1..Len(tasks) : tasks[i].walk = NoRef

\* C27: a markComplete call on a task sets isCompleted, sets an attached
\* walk's status to 'completed', and changes no other field, task, walk or
\* list; a second call on the same task changes nothing at all.
C27_MarkCompleteIdempotent ==
    [][last'.op = "markComplete" =>
          \E i \in 1..Len(tasks) :
              /\ tasks' = [tasks EXCEPT ![i].isCompleted = TRUE]
              /\ walks' = IF tasks[i].walk # NoRef
                           THEN [walks EXCEPT ![tasks[i].walk].status = "completed"]
                           ELSE walks
              /\ userWalks' = userWalks
              /\ petTasks' = petTasks
              /\ markComplete(tasks', walks', i) = [tasks |-> tasks', walks |-> walks']]_vars

\* markComplete has just been called, and a task with a walk is completed
\* with its walk 'completed'.
C27_Witness ==
    /\ last.op = "markComplete"
    /\ \E i \in 1..Len(tasks) :
          /\ tasks[i].isCompleted /\ tasks[i].walk # NoRef
          /\ walks[tasks[i].walk].status = "completed"

\* The uncompleted walk-bearing tasks of pet.tasks whose window overlaps
\* [s, s + d), in pet.tasks order.
OverlappingInOrder(pet, s, d) ==
    SelectSeq(petTasks[pet],
              LAMBDA i : /\ ActiveWalk(i)
                         /\ s < tasks[i].dueDate + walks[tasks[i].walk].duration
                         /\ s + d > tasks[i].dueDate)

\* C28: hasConflict reports every conflict: when the proposed window
\* overlaps k uncompleted walk-bearing tasks of the pet the result is a
\* conflict with k entries, one per such task in pet.tasks order, and when
\* k = 0 it is the no-conflict indicator with one confirmation message.
C28_AllConflictsReported ==
    \A pet \in Pets, s \in ProbeStarts, d \in ProbeDurations :
        LET found == hasConflict(pet, s, d)
            hits == OverlappingInOrder(pet, s, d)
        IN  IF hits = <<>>
            THEN found = <<FALSE, <<[pet |-> pet, ok |-> s]>>>>
            ELSE /\ found[1]
                 /\ Len(found[2]) = Len(hits)
                 /\ \A k \in 1..Len(hits) :
                       /\ found[2][k].pet = pet
                       /\ found[2][k].description = tasks[hits[k]].description
                       /\ found[2][k].time = tasks[hits[k]].dueDate
                       /\ found[2][k].duration = walks[tasks[hits[k]].walk].duration

\* Buddy has uncompleted walks at 08:00/30 and 08:30/20: a 30-minute walk
\* at 08:15 conflicts with both, one at 09:00 with none.
C28_Witness ==
    /\ Len(OverlappingInOrder("Buddy", 15, 30)) = 2
    /\ Len(hasConflict("Buddy", 15, 30)[2]) = 2
    /\ ~hasConflict("Buddy", 60, 30)[1]

\* C29: getNextOccurrence is dueDate + 1 day for 'daily', dueDate + 7 days
\* for 'weekly' and no occurrence for any other recurrence; so completeTask
\* on a task whose recurrence is another non-empty string ('none') marks it
\* complete, returns None and adds no task to any list.
C29_OtherRecurrenceNoOccurrence ==
    \A i \in 1..Len(tasks) :
        /\ getNextOccurrence(tasks[i])
              = CASE tasks[i].recurrence = "daily" -> <<tasks[i].dueDate + 24 * 60>>
                  [] tasks[i].recurrence = "weekly" -> <<tasks[i].dueDate + 7 * 24 * 60>>
                  [] OTHER -> <<>>
        /\ (tasks[i].recurrence \notin {None, "", "daily", "weekly"}) =>
              LET out == completeTask(i)
              IN  /\ out.ret = NoRef
                  /\ out.tasks = [tasks EXCEPT ![i].isCompleted = TRUE]
                  /\ out.petTasks = petTasks
                  /\ out.userWalks = userWalks

\* completeTask has just returned None for a task with recurrence 'none',
\* which is now completed.
C29_Witness ==
    /\ last.op = "completeTask" /\ last.ret = NoRef
    /\ \E i \in 1..Len(tasks) : tasks[i].recurrence = "none" /\ tasks[i].isCompleted
    /\ \A i \in 1..Len(tasks) : tasks[i].isCompleted => tasks[i].recurrence = "none"

\* The place in pet.tasks of the task that holds walk w.
HolderPlace(pet, w) ==
    CHOOSE n \in 1..Len(petTasks[pet]) : tasks[petTasks[pet][n]].walk = w

\* C30: under the Scheduler's operations Pet.getScheduledWalks() returns,
\* once each and in pet.tasks order, exactly the walks of the pet's
\* uncompleted walk-bearing tasks, and none of them has status 'completed'.
C30_ScheduledWalks ==
    \A pet \in Pets :
        LET out == getScheduledWalks(pet)
        IN  /\ Members(out) = {tasks[i].walk : i \in ActiveWalksOf(pet)}
            /\ Len(out) = Cardinality(ActiveWalksOf(pet))
            /\ \A a, b \in 1..Len(out) :
                  a < b => HolderPlace(pet, out[a]) < HolderPlace(pet, out[b])
            /\ \A k \in 1..Len(out) : walks[out[k]].status # "completed"

\* Buddy has a completed walk, an uncompleted one and a task without a
\* walk: getScheduledWalks returns the uncompleted walk alone.
C30_Witness ==
    /\ Len(getScheduledWalks("Buddy")) = 1
    /\ \E i \in PetTaskSet("Buddy") : tasks[i].walk # NoRef /\ tasks[i].isCompleted
    /\ \E i \in PetTaskSet("Buddy") : tasks[i].walk = NoRef

\* Two scheduleWalk requests are for the same pet and their windows overlap.
RequestsCollide(r, q) ==
    r[1] = q[1] /\ r[2] < q[2] + q[3] /\ q[2] < r[2] + r[3]

\* Some pet has two uncompleted walk-bearing tasks whose windows share a
\* minute.
OverlappingWalksExist ==
    \E i, j \in 1..Len(tasks) :
        /\ i < j /\ tasks[i].pet = tasks[j].pet
        /\ ActiveWalk(i) /\ ActiveWalk(j)
        /\ Window(i) \cap Window(j) # {}

\* C26: without mutual exclusion, two scheduleWalk calls for the same pet
\* with overlapping windows that both ran their check before either
\* appended its task both return a walk, and the state then holds two
\* uncompleted overlapping walk-bearing tasks of that pet: a call is refused
\* only because of a task that is in the pet's list, never because of a call
\* still under way.  With check-and-create in a mutual-exclusion region no
\* such state is reached.
C26_CheckThenCreateRace ==
    /\ calls.mutex => ~OverlappingWalksExist
    /\ \A c \in Callers :
          (calls.of[c].pc = "done" /\ calls.of[c].ret = NoRef)
              => ActiveOverlapping(calls.of[c].req[1], calls.of[c].req[2],
                                   calls.of[c].req[3]) # {}
    /\ \A c \in Callers :
          (calls.of[c].pc = "done" /\ calls.of[c].ret # NoRef)
              => LET i == calls.of[c].at
                 IN  /\ i \in 1..Len(tasks)
                     /\ ActiveWalk(i)
                     /\ tasks[i].walk = calls.of[c].ret
                     /\ tasks[i].pet = calls.of[c].req[1]
                     /\ tasks[i].dueDate = calls.of[c].req[2]
                     /\ walks[tasks[i].walk].duration = calls.of[c].req[3]
                     /\ i \in ActiveWalksOf(tasks[i].pet)
    /\ \A c, d \in Callers :
          (/\ c # d
           /\ calls.of[c].pc = "done" /\ calls.of[d].pc = "done"
           /\ calls.of[c].ret # NoRef /\ calls.of[d].ret # NoRef
           /\ RequestsCollide(calls.of[c].req, calls.of[d].req))
              => ~calls.mutex /\ OverlappingWalksExist /\ checkAllConflicts # <<>>

\* Without the region both callers have returned a walk for Buddy, 08:00/30
\* and 08:15/30, and both tasks are uncompleted.
C26_Witness ==
    /\ ~calls.mutex
    /\ \A c \in Callers : calls.of[c].pc = "done" /\ calls.of[c].ret # NoRef
    /\ \E c, d \in Callers :
          calls.of[c].req = <<"Buddy", 0, 30>> /\ calls.of[d].req = <<"Buddy", 15, 30>>
    /\ OverlappingWalksExist

\* C31: the Schedule Walk page shows its 'Walk scheduled' message only when
\* scheduleWalk returned a walk, never after a call that returned None
\* because of a conflict.
C31_SuccessOnlyWithWalk ==
    last.op = "ScheduleWalkPage" =>
        (last.ret.shown = WalkScheduledMessage => last.ret.walk # NoRef)

\* The tasks behind task i in ts that look like an expansion of it due at d:
\* its description, pet and recurrence, no walk, due at d.
SuccessorsAt(ts, i, d) ==
    {j \in (i + 1)..Len(ts) :
        /\ ts[j].dueDate = d
        /\ ts[j].description = ts[i].description
        /\ ts[j].pet = ts[i].pet
        /\ ts[j].recurrence = ts[i].recurrence
        /\ ts[j].walk = NoRef}

\* C32: completeTask does not look at the completion flag: a call on a daily
\* or weekly task, completed already or not, appends exactly one uncompleted
\* task due one period after the task, so every further call on the same
\* task adds one more successor at that same date.
C32_CompleteTaskNotGuarded ==
    \A i \in 1..Len(tasks) :
        Recurring(i) =>
            LET out == completeTask(i)
                d == tasks[i].dueDate + Period(tasks[i].recurrence)
            IN  /\ Len(out.tasks) = Len(tasks) + 1
                /\ SubSeq(out.tasks, 1, Len(tasks))
                      = [tasks EXCEPT ![i].isCompleted = TRUE]
                /\ ~out.tasks[Len(out.tasks)].isCompleted
                /\ SuccessorsAt(out.tasks, i, d) = SuccessorsAt(tasks, i, d) \cup {Len(tasks) + 1}
                /\ Cardinality(SuccessorsAt(out.tasks, i, d))
                      = Cardinality(SuccessorsAt(tasks, i, d)) + 1

\* completeTask has run twice on the same daily task: two uncompleted
\* successors are due the day after it, the second made by the last call.
C32_Witness ==
    /\ last.op = "completeTask" /\ last.ret = Len(tasks)
    /\ \E i \in 1..Len(tasks) :
          /\ tasks[i].isCompleted /\ tasks[i].recurrence = "daily"
          /\ Cardinality(SuccessorsAt(tasks, i, tasks[i].dueDate + DayMinutes)) = 2
          /\ last.ret \in SuccessorsAt(tasks, i, tasks[i].dueDate + DayMinutes)
          /\ \A j \in SuccessorsAt(tasks, i, tasks[i].dueDate + DayMinutes) :
                ~tasks[j].isCompleted

\* Values of now the pass is examined for: one day, two days, and three days
\* and a minute after the first morning.
RescheduleNows == NowChoices \cup {3 * DayMinutes + 1}

\* C33: when rescheduleMissedTasks() returns, no uncompleted daily or weekly
\* task of User.tasks is due strictly before the now the call read, however
\* many periods the task it started from was overdue: the pass also visits
\* the tasks it appends.
C33_NoOverdueRecurringLeft ==
    \A now \in RescheduleNows :
        LET out == rescheduleMissedTasks(now)
        IN  \A k \in 1..Len(out.tasks) :
                (~out.tasks[k].isCompleted
                   /\ out.tasks[k].recurrence \in {"daily", "weekly"})
                    => ~(out.tasks[k].dueDate < now)

\* rescheduleMissedTasks has just run on a daily task that was two periods
\* overdue: the task and its first clone are completed and were moved on a
\* day each, the clone of the clone is uncompleted and due on the third day,
\* not before now.
C33_Witness ==
    /\ last.op = "rescheduleMissedTasks"
    /\ Len(tasks) = 3
    /\ tasks[1].recurrence = "daily" /\ tasks[1].isCompleted
    /\ tasks[2].isCompleted /\ tasks[2].dueDate = tasks[1].dueDate + DayMinutes
    /\ ~tasks[3].isCompleted /\ tasks[3].dueDate = tasks[2].dueDate
    /\ tasks[3].dueDate \in {2 * DayMinutes, 2 * DayMinutes + 15}
    /\ \A k \in 1..Len(tasks) : tasks[k].description = tasks[1].description

\* C34: rescheduleMissedTasks() terminates although it appends to the list
\* it iterates over: an iteration appends at most one clone, the clone is due
\* one period after the date the task it was cloned from had, hence later,
\* and every call that started returns.
C34_RescheduleTerminates ==
    /\ [][(pass.pc = "running" /\ tasks' # tasks) =>
             /\ Len(tasks') = Len(tasks) + 1
             /\ tasks'[Len(tasks')].dueDate
                   = tasks[pass.i].dueDate + Period(tasks[pass.i].recurrence)
             /\ tasks'[Len(tasks')].dueDate > tasks[pass.i].dueDate
             /\ tasks[pass.i].dueDate < pass.now]_vars
    /\ (pass.pc = "running") ~> (pass.pc = "done")

\* A call has returned after visiting tasks it appended itself: the list
\* grew by at least two and one of the appended tasks was moved and
\* completed in turn.
C34_Witness ==
    /\ pass.pc = "done" /\ last.op = "rescheduleMissedTasks"
    /\ pass.i = Len(tasks) + 1
    /\ Len(tasks) >= pass.start + 2
    /\ \E k \in (pass.start + 1)..Len(tasks) : tasks[k].isCompleted

\* Task k is one rescheduleMissedTasks passes over at time now: completed, or
\* not due strictly before now, or without a next occurrence.
PassedOver(k, now) ==
    \/ tasks[k].isCompleted
    \/ ~(tasks[k].dueDate < now)
    \/ tasks[k].recurrence \notin {"daily", "weekly"}

\* C35: rescheduleMissedTasks() leaves alone every task that is completed,
\* not due strictly before now, or without a next occurrence: an iteration on
\* such a task changes no task and no walk and appends nothing, an iteration
\* on any task changes no other task and no other task's walk, and User.walks
\* stays as it is.
C35_RescheduleFrame ==
    [][(pass.pc = "running" /\ pass'.i = pass.i + 1) =>
          /\ userWalks' = userWalks
          /\ petTasks' = petTasks
          /\ \A k \in 1..Len(tasks) :
                k # pass.i =>
                    /\ tasks'[k] = tasks[k]
                    /\ tasks[k].walk # NoRef =>
                          walks'[tasks[k].walk] = walks[tasks[k].walk]
          /\ PassedOver(pass.i, pass.now) => (tasks' = tasks /\ walks' = walks)]_vars

\* A call has returned that made a clone and passed over a task completed
\* before it started and an overdue one-time walk: both are as they were,
\* the walk still scheduled at its task's date.
C35_Witness ==
    /\ pass.pc = "done"
    /\ Len(tasks) > pass.start
    /\ \E k \in 1..pass.start : tasks[k].isCompleted /\ tasks[k].dueDate = 0
    /\ \E k \in 1..pass.start :
          /\ ~tasks[k].isCompleted /\ tasks[k].recurrence = None
          /\ tasks[k].dueDate < pass.now
          /\ tasks[k].walk # NoRef
          /\ walks[tasks[k].walk].scheduledTime = tasks[k].dueDate
          /\ walks[tasks[k].walk].status = "scheduled"

\* The completed tasks of User.tasks.
Completed == {i \in 1..Len(tasks) : tasks[i].isCompleted}

\* C36: completion is permanent: no step of a Scheduler operation or of
\* markComplete makes a completed task uncompleted or removes it, so the set
\* of completed tasks only grows.
C36_CompletionPermanent ==
    [][/\ \A i \in Completed : i <= Len(tasks') /\ tasks'[i].isCompleted
       /\ Completed \subseteq {i \in 1..Len(tasks') : tasks'[i].isCompleted}]_vars

\* completeTask has just run in a state that already held a completed task:
\* two tasks are completed now.
C36_Witness ==
    /\ last.op = "completeTask"
    /\ Cardinality(Completed) >= 2
    /\ \E i \in 1..Len(tasks) : ~tasks[i].isCompleted

\* The minutes of a walk's own window [scheduledTime, scheduledTime + duration).
WalkWindow(w) == walks[w].scheduledTime .. (walks[w].scheduledTime + walks[w].duration - 1)

\* C37: every walk-bearing task is due at its walk's scheduledTime, so the
\* window the conflict detector computes from task.dueDate and walk.duration
\* is the walk's own window.
C37_TaskDueAtWalkTime ==
    \A i \in 1..Len(tasks) :
        tasks[i].walk # NoRef =>
            /\ tasks[i].dueDate = walks[tasks[i].walk].scheduledTime
            /\ Window(i) = WalkWindow(tasks[i].walk)

\* rescheduleMissedTasks has just moved a task with a walk to a later day
\* and the walk with it, next to a walk scheduleWalk created.
C37_Witness ==
    /\ last.op = "rescheduleMissedTasks"
    /\ \E i \in 1..Len(tasks) :
          /\ tasks[i].walk # NoRef
          /\ tasks[i].dueDate >= DayMinutes
          /\ walks[tasks[i].walk].scheduledTime = tasks[i].dueDate
    /\ \E j \in 1..Len(tasks) :
          /\ tasks[j].walk # NoRef /\ tasks[j].walk \in {userWalks[q] : q \in 1..Len(userWalks)}
          /\ walks[tasks[j].walk].scheduledTime = tasks[j].dueDate

\* The uncompleted tasks whose walk has been cancelled.
CancelledActive ==
    {i \in 1..Len(tasks) : ActiveWalk(i) /\ walks[tasks[i].walk].status = "cancelled"}

\* C38: the conflict detector goes by the task's completion flag and not by
\* walk.status: while the task of a cancelled walk is uncompleted,
\* hasConflict reports a conflict for every overlapping window of the same
\* pet, scheduleWalk for such a window returns None and creates nothing, and
\* Pet.getScheduledWalks() still returns the cancelled walk.
C38_CancelledWalkStillBlocks ==
    \A i \in CancelledActive :
        LET pet == tasks[i].pet
            w == tasks[i].walk
            listed == getScheduledWalks(pet)
        IN  /\ hasConflict(pet, tasks[i].dueDate, walks[w].duration)[1]
            /\ \A r \in WalkRequests :
                  (r[1] = pet /\ r[2] < tasks[i].dueDate + walks[w].duration
                              /\ r[2] + r[3] > tasks[i].dueDate)
                      => /\ hasConflict(r[1], r[2], r[3])[1]
                         /\ scheduleWalk(r[1], r[2], r[3]).ret = NoRef
                         /\ scheduleWalk(r[1], r[2], r[3]).tasks = tasks
                         /\ scheduleWalk(r[1], r[2], r[3]).walks = walks
            /\ \E k \in 1..Len(listed) : listed[k] = w

\* scheduleWalk has just been refused for Buddy although every uncompleted
\* walk of Buddy is cancelled, and getScheduledWalks lists a cancelled walk.
C38_Witness ==
    /\ last.op = "scheduleWalk" /\ last.ret = NoRef
    /\ ActiveWalksOf("Buddy") # {}
    /\ ActiveWalksOf("Buddy") \subseteq CancelledActive
    /\ \E k \in 1..Len(getScheduledWalks("Buddy")) :
          walks[getScheduledWalks("Buddy")[k]].status = "cancelled"
====
